---- MODULE Spec2Model ----
(***************************************************************************)
(* A model of the spanleaf-core spreadsheet engine: the Value domain with  *)
(* its partial operators (cell.rs), the Sheet with its shell-offset store  *)
(* and row/column defaults (sheet.rs), the expression evaluator            *)
(* (language.rs) and the Spanleaf engine with its value cache and          *)
(* reverse-dependency map (lib.rs).                                        *)
(***************************************************************************)
EXTENDS Integers, Sequences, FiniteSets, TLC

(***************************************************************************)
(* Bounds of the exploration.                                              *)
(***************************************************************************)
\* number of public calls made on the engine in one behaviour
MaxOps == 5
\* number of sheets insert_sheet may create in one behaviour
MaxSheets == 2
\* width of the machine word that stands for u64 in the model
WordBits == 8
\* number of operator applications a client chains on one pair of operands
MaxSteps == 2
\* number of public calls of a client that inserts one script and reads it
MaxCalls == 3

WordMod == 2 ^ WordBits
WordMax == WordMod - 1

(***************************************************************************)
(* f64 numbers.  A finite number is an exact fraction n/d in lowest terms  *)
(* with d > 0; the zeros are 0/1 (+0.0) and 0/-1 (-0.0); the infinities    *)
(* are 1/0 and -1/0, NaN is 0/0.  Rounding is not modelled: the literals   *)
(* of the explored formulas are small integers.                            *)
(***************************************************************************)
F64(n, d) == [n |-> n, d |-> d]
NaN == F64(0, 0)
IsNaN(x) == x.d = 0 /\ x.n = 0
IsInf(x) == x.d = 0 /\ x.n # 0
IsZero(x) == x.n = 0 /\ x.d # 0
Sgn(x) == IF x.n < 0 \/ (x.n = 0 /\ x.d < 0) THEN -1 ELSE 1
Abs(i) == IF i < 0 THEN -i ELSE i
Zero(sign) == F64(0, sign)
Inf(sign) == F64(sign, 0)

RECURSIVE Gcd(_, _)
Gcd(a, b) == IF b = 0 THEN a ELSE Gcd(b, a % b)

\* the fraction n/d (d > 0, n # 0) in lowest terms
Frac(n, d) == LET g == Gcd(Abs(n), d) IN F64(n \div g, d \div g)

\* numerator and denominator of a finite number, the zeros read as 0/1
FNum(x) == x.n
FDen(x) == IF x.n = 0 THEN 1 ELSE x.d

f64_neg(x) ==
    IF IsNaN(x) THEN NaN
    ELSE IF IsInf(x) THEN Inf(-x.n)
    ELSE IF IsZero(x) THEN Zero(-x.d)
    ELSE F64(-x.n, x.d)

f64_add(a, b) ==
    IF IsNaN(a) \/ IsNaN(b) THEN NaN
    ELSE IF IsInf(a) /\ IsInf(b) THEN (IF a.n = b.n THEN a ELSE NaN)
    ELSE IF IsInf(a) THEN a
    ELSE IF IsInf(b) THEN b
    ELSE LET n == FNum(a) * FDen(b) + FNum(b) * FDen(a)
             d == FDen(a) * FDen(b)
         IN IF n # 0 THEN Frac(n, d)
            ELSE IF IsZero(a) /\ IsZero(b) /\ Sgn(a) = -1 /\ Sgn(b) = -1 THEN Zero(-1)
            ELSE Zero(1)

f64_sub(a, b) == f64_add(a, f64_neg(b))

f64_mul(a, b) ==
    IF IsNaN(a) \/ IsNaN(b) THEN NaN
    ELSE IF (IsInf(a) /\ IsZero(b)) \/ (IsZero(a) /\ IsInf(b)) THEN NaN
    ELSE IF IsInf(a) \/ IsInf(b) THEN Inf(Sgn(a) * Sgn(b))
    ELSE IF IsZero(a) \/ IsZero(b) THEN Zero(Sgn(a) * Sgn(b))
    ELSE Frac(a.n * b.n, a.d * b.d)

f64_div(a, b) ==
    IF IsNaN(a) \/ IsNaN(b) THEN NaN
    ELSE IF (IsInf(a) /\ IsInf(b)) \/ (IsZero(a) /\ IsZero(b)) THEN NaN
    ELSE IF IsInf(a) \/ IsZero(b) THEN Inf(Sgn(a) * Sgn(b))
    ELSE IF IsInf(b) \/ IsZero(a) THEN Zero(Sgn(a) * Sgn(b))
    ELSE Frac(Sgn(b) * a.n * b.d, a.d * Abs(b.n))

\* `f as u64`: truncation toward zero, saturating at the ends of the word,
\* NaN to 0
as_u64(x) ==
    IF IsNaN(x) THEN 0
    ELSE IF IsInf(x) THEN (IF x.n > 0 THEN WordMax ELSE 0)
    ELSE IF x.n <= 0 THEN 0
    ELSE IF x.n \div x.d > WordMax THEN WordMax
    ELSE x.n \div x.d

(***************************************************************************)
(* cell.rs: CellIdx and Value.                                             *)
(***************************************************************************)
CellIdx(row, col) == [row |-> row, col |-> col]

None == [t |-> "None"]
Bool(b) == [t |-> "Bool", b |-> b]
Number(f) == [t |-> "Number", f |-> f]
String(s) == [t |-> "String", s |-> s]
Ref(sref, cref) == [t |-> "Ref", sref |-> sref, cref |-> cref]
Formula(script, expr) == [t |-> "Formula", script |-> script, expr |-> expr]

\* Result<_, Error>
Ok(v) == [ok |-> TRUE, v |-> v]
Err(e) == [ok |-> FALSE, err |-> e]

\* ops::Neg with a slip: a Bool is returned as it is
value_neg_keeps_bool(v) ==
    CASE v.t = "None" -> Ok(None)
      [] v.t = "Bool" -> Ok(Bool(v.b))
      [] v.t = "Number" -> Ok(Number(f64_neg(v.f)))
      [] OTHER -> Err("OperationUnavailable")

\* impl ops::Neg for Value
value_neg(v) ==
    CASE v.t = "None" -> Ok(None)
      [] v.t = "Bool" -> Ok(Bool(~v.b))
      [] v.t = "Number" -> Ok(Number(f64_neg(v.f)))
      [] OTHER -> Err("OperationUnavailable")

\* ops::Add with a slip: two Strings are joined right operand first
value_add_swapped(lhs, rhs) ==
    CASE lhs.t = "None" -> Ok(rhs)
      [] rhs.t = "None" -> Ok(lhs)
      [] lhs.t = "Number" /\ rhs.t = "Number" -> Ok(Number(f64_add(lhs.f, rhs.f)))
      [] lhs.t = "String" /\ rhs.t = "String" -> Ok(String(rhs.s \o lhs.s))
      [] OTHER -> Err("OperationUnavailable")

\* impl ops::Add for Value
value_add(lhs, rhs) ==
    CASE lhs.t = "None" -> Ok(rhs)
      [] rhs.t = "None" -> Ok(lhs)
      [] lhs.t = "Bool" /\ rhs.t = "Bool" -> Err("OperationUnavailable")
      [] lhs.t = "Number" /\ rhs.t = "Number" -> Ok(Number(f64_add(lhs.f, rhs.f)))
      [] lhs.t = "String" /\ rhs.t = "String" -> Ok(String(lhs.s \o rhs.s))
      [] OTHER -> Err("OperationUnavailable")

\* ops::Sub with a slip: Value::None stands for zero on the left
value_sub_from_zero(lhs, rhs) ==
    CASE lhs.t = "None" -> value_neg(rhs)
      [] rhs.t = "None" -> Ok(lhs)
      [] lhs.t = "Number" /\ rhs.t = "Number" -> Ok(Number(f64_sub(lhs.f, rhs.f)))
      [] OTHER -> Err("OperationUnavailable")

\* impl ops::Sub for Value
value_sub(lhs, rhs) ==
    CASE lhs.t = "None" -> Ok(rhs)
      [] rhs.t = "None" -> Ok(lhs)
      [] lhs.t = "Number" /\ rhs.t = "Number" -> Ok(Number(f64_sub(lhs.f, rhs.f)))
      [] OTHER -> Err("OperationUnavailable")

\* impl ops::Mul for Value
value_mul(lhs, rhs) ==
    CASE lhs.t = "None" -> Ok(rhs)
      [] rhs.t = "None" -> Ok(lhs)
      [] lhs.t = "Number" /\ rhs.t = "Number" -> Ok(Number(f64_mul(lhs.f, rhs.f)))
      [] OTHER -> Err("OperationUnavailable")

\* impl ops::Div for Value
value_div(lhs, rhs) ==
    CASE lhs.t = "None" -> Ok(rhs)
      [] rhs.t = "None" -> Ok(lhs)
      [] lhs.t = "Number" /\ rhs.t = "Number" -> Ok(Number(f64_div(lhs.f, rhs.f)))
      [] OTHER -> Err("OperationUnavailable")

(***************************************************************************)
(* Finite maps (BTreeMap): a function whose domain is the set of keys.     *)
(***************************************************************************)
EmptyMap == <<>>
HasKey(m, k) == k \in DOMAIN m
MapInsert(m, k, v) == [x \in DOMAIN m \cup {k} |-> IF x = k THEN v ELSE m[x]]
MapRemove(m, k) == [x \in DOMAIN m \ {k} |-> m[x]]
\* Option<Value>::unwrap_or_default()
GetOrDefault(m, k) == IF HasKey(m, k) THEN m[k] ELSE None

(***************************************************************************)
(* sheet.rs: ValueResult, Sheet and the shell offset.                      *)
(***************************************************************************)
ValueResult(value, source) == [value |-> value, source |-> source]
\* impl Default for ValueResult
DefaultValueResult == ValueResult(None, "Native")

\* fn cell_ref_to_shell_off, on the machine word (wrapping arithmetic)
cell_ref_to_shell_off(cref) ==
    LET max == IF cref.row >= cref.col THEN cref.row ELSE cref.col
    IN ((max * max) + max + cref.row - cref.col) % WordMod

\* Sheet::new
NewSheet(name) ==
    [name |-> name, cells |-> EmptyMap, row_defaults |-> EmptyMap,
     col_defaults |-> EmptyMap]

\* MapWrite with a slip: Value::None is stored like any other value
MapWrite_keeps_none(m, k, val) == MapInsert(m, k, val)

\* the map part of the three Sheet inserts: Value::None removes the entry
MapWrite(m, k, val) == IF val.t = "None" THEN MapRemove(m, k) ELSE MapInsert(m, k, val)

\* Sheet::insert_row_default: the sheet afterwards and the previous value
Sheet_insert_row_default(sheet, row, val) ==
    [sheet |-> [sheet EXCEPT !.row_defaults = MapWrite(@, row, val)],
     prev |-> GetOrDefault(sheet.row_defaults, row)]

\* Sheet::insert_col_default
Sheet_insert_col_default(sheet, col, val) ==
    [sheet |-> [sheet EXCEPT !.col_defaults = MapWrite(@, col, val)],
     prev |-> GetOrDefault(sheet.col_defaults, col)]

\* Sheet::insert with a slip: the previous value is looked up with the
\* defaults applied
Sheet_insert_resolved_prev(sheet, cref, val) ==
    LET offset == cell_ref_to_shell_off(cref)
    IN [sheet |-> [sheet EXCEPT !.cells = MapWrite(@, offset, val)],
        prev |-> IF HasKey(sheet.cells, offset) THEN sheet.cells[offset]
                 ELSE IF HasKey(sheet.col_defaults, cref.col)
                      THEN sheet.col_defaults[cref.col]
                 ELSE GetOrDefault(sheet.row_defaults, cref.row)]

\* Sheet::insert
Sheet_insert(sheet, cref, val) ==
    LET offset == cell_ref_to_shell_off(cref)
    IN [sheet |-> [sheet EXCEPT !.cells = MapWrite(@, offset, val)],
        prev |-> GetOrDefault(sheet.cells, offset)]

\* Sheet::get_formula with a slip: the row default is tried before the
\* column default
get_formula_row_first(sheet, cref) ==
    LET offset == cell_ref_to_shell_off(cref)
    IN IF HasKey(sheet.cells, offset) THEN ValueResult(sheet.cells[offset], "Native")
       ELSE IF HasKey(sheet.row_defaults, cref.row)
            THEN ValueResult(sheet.row_defaults[cref.row], "RowDefault")
       ELSE IF HasKey(sheet.col_defaults, cref.col)
            THEN ValueResult(sheet.col_defaults[cref.col], "ColDefault")
       ELSE DefaultValueResult

\* Sheet::get_formula
get_formula(sheet, cref) ==
    LET offset == cell_ref_to_shell_off(cref)
    IN IF HasKey(sheet.cells, offset) THEN ValueResult(sheet.cells[offset], "Native")
       ELSE IF HasKey(sheet.col_defaults, cref.col)
            THEN ValueResult(sheet.col_defaults[cref.col], "ColDefault")
       ELSE IF HasKey(sheet.row_defaults, cref.row)
            THEN ValueResult(sheet.row_defaults[cref.row], "RowDefault")
       ELSE DefaultValueResult

(***************************************************************************)
(* language.rs: the expression tree.                                       *)
(***************************************************************************)
ENumber(f) == [t |-> "Number", f |-> f]
EString(s) == [t |-> "String", s |-> s]
EBool(b) == [t |-> "Bool", b |-> b]
ESheet(name) == [t |-> "Sheet", name |-> name]
\* sheet_ref is the Option: <<>> or a one-element sequence
ECellRef(sheet_ref, row, col) ==
    [t |-> "CellRef", sheet_ref |-> sheet_ref, row |-> row, col |-> col]
ECellDeref(cref) == [t |-> "CellDeref", e |-> cref]
ENeg(expr) == [t |-> "Neg", expr |-> expr]
EAdd(lhs, rhs) == [t |-> "Add", lhs |-> lhs, rhs |-> rhs]
ESub(lhs, rhs) == [t |-> "Sub", lhs |-> lhs, rhs |-> rhs]
EMul(lhs, rhs) == [t |-> "Mul", lhs |-> lhs, rhs |-> rhs]
EDiv(lhs, rhs) == [t |-> "Div", lhs |-> lhs, rhs |-> rhs]
ECall(fn_name, args) == [t |-> "Call", fn_name |-> fn_name, args |-> args]

(***************************************************************************)
(* language.rs: the parser.  A script is a sequence of one-character       *)
(* strings.  Each parser takes the script and the index of the next        *)
(* character and returns PFail or the expression with the index after it;  *)
(* a failed parser consumes nothing, a repetition takes as many items as   *)
(* it can and is not re-entered.  Number literals are unsigned decimal     *)
(* integers: the signs, fractions and exponents that the number parser of  *)
(* the library accepts are not modelled.                                   *)
(***************************************************************************)
PFail == [ok |-> FALSE]
POk(e, i) == [ok |-> TRUE, e |-> e, i |-> i]

DigitChars == <<"0", "1", "2", "3", "4", "5", "6", "7", "8", "9">>
Digits == {DigitChars[k] : k \in 1..10}
DigitValue(c) == (CHOOSE k \in 1..10 : DigitChars[k] = c) - 1
IdentStart ==
    {"a", "b", "c", "d", "e", "f", "g", "h", "i", "j", "k", "l", "m", "n", "o", "p",
     "q", "r", "s", "t", "u", "v", "w", "x", "y", "z", "A", "B", "C", "D", "E", "F",
     "G", "H", "I", "J", "K", "L", "M", "N", "O", "P", "Q", "R", "S", "T", "U", "V",
     "W", "X", "Y", "Z", "_"}
Whitespace == {" "}

\* the character at index i, "" at the end of the input
At(src, i) == IF i <= Len(src) THEN src[i] ELSE ""

\* the String of a slice of characters
RECURSIVE Str(_)
Str(chars) == IF chars = <<>> THEN "" ELSE Head(chars) \o Str(Tail(chars))

\* the index after the longest run of characters of class from index i
RECURSIVE Run(_, _, _)
Run(src, i, class) == IF At(src, i) \in class THEN Run(src, i + 1, class) ELSE i

\* .padded(): whitespace on both sides is skipped
skip_ws(src, i) == Run(src, i, Whitespace)

\* just(word)
RECURSIVE just(_, _, _)
just(word, src, i) ==
    IF word = <<>> THEN POk(<<>>, i)
    ELSE IF At(src, i) = Head(word) THEN just(Tail(word), src, i + 1)
    ELSE PFail

\* let op = |c| just(c).padded()
p_op(c, src, i) ==
    LET r == just(<<c>>, src, skip_ws(src, i))
    IN IF r.ok THEN POk(c, skip_ws(src, r.i)) ELSE PFail

RECURSIVE DecimalValue(_, _)
DecimalValue(chars, acc) ==
    IF chars = <<>> THEN acc
    ELSE DecimalValue(Tail(chars), 10 * acc + DigitValue(Head(chars)))

\* let num = number().map(Expr::Number).padded()
p_num(src, i) ==
    LET b == skip_ws(src, i)
        e == Run(src, b, Digits)
    IN IF e = b THEN PFail
       ELSE POk(ENumber(F64(DecimalValue(SubSeq(src, b, e - 1), 0), 1)), skip_ws(src, e))

\* let string = any().filter(|c| c != &'\'').repeated(), between two '\''
p_string(src, i) ==
    IF At(src, i) # "'" THEN PFail
    ELSE LET e == CHOOSE j \in (i + 1)..(Len(src) + 1) :
                     /\ At(src, j) \in {"'", ""}
                     /\ \A k \in (i + 1)..(j - 1) : src[k] # "'"
         IN IF At(src, e) = "'" THEN POk(EString(Str(SubSeq(src, i + 1, e - 1))), e + 1)
            ELSE PFail

\* let boolean = just("true").or(just("false"))
p_boolean(src, i) ==
    LET t == just(<<"t", "r", "u", "e">>, src, i)
        f == just(<<"f", "a", "l", "s", "e">>, src, i)
    IN IF t.ok THEN POk(EBool(TRUE), t.i)
       ELSE IF f.ok THEN POk(EBool(FALSE), f.i)
       ELSE PFail

\* let ident = text::ascii::ident().padded(); e is the name
p_ident(src, i) ==
    LET b == skip_ws(src, i)
    IN IF At(src, b) \notin IdentStart THEN PFail
       ELSE LET e == Run(src, b + 1, IdentStart \cup Digits)
            IN POk(Str(SubSeq(src, b, e - 1)), skip_ws(src, e))

RECURSIVE p_sum(_, _), p_sum_rest(_, _, _), p_product(_, _), p_product_rest(_, _, _),
          p_unary(_, _), p_atom(_, _), p_args(_, _, _), p_raw_ref(_, _)

\* a parser's result handed to what follows it
With(r, then(_)) == then(r)

\* choice((..)): the result of the first alternative that parses
Choice(alts) ==
    IF \A k \in DOMAIN alts : ~alts[k].ok THEN PFail
    ELSE alts[CHOOSE k \in DOMAIN alts : alts[k].ok /\ \A j \in 1..(k - 1) : ~alts[j].ok]

\* expr.separated_by(just(',')).allow_trailing().collect(); e is the list
p_args(src, i, acc) ==
    With(p_sum(src, i), LAMBDA a :
        IF ~a.ok THEN POk(acc, i)
        ELSE IF At(src, a.i) = "," THEN p_args(src, a.i + 1, Append(acc, a.e))
        ELSE POk(Append(acc, a.e), a.i))

\* let call = ident.then(args.delimited_by(just('('), just(')')))
p_call(src, i) ==
    LET name == p_ident(src, i)
    IN IF ~name.ok \/ At(src, name.i) # "(" THEN PFail
       ELSE With(p_args(src, name.i + 1, <<>>), LAMBDA args :
                IF At(src, args.i) = ")" THEN POk(ECall(name.e, args.e), args.i + 1)
                ELSE PFail)

\* let raw_ref = ident.or_not().then(expr ',' expr between '[' and ']');
\* e is the CellRef
p_raw_ref(src, i) ==
    LET name == p_ident(src, i)
        sheet == IF name.ok THEN <<ESheet(name.e)>> ELSE <<>>
        b == IF name.ok THEN name.i ELSE i
    IN IF At(src, b) # "[" THEN PFail
       ELSE With(p_sum(src, b + 1), LAMBDA row :
                IF ~row.ok \/ At(src, row.i) # "," THEN PFail
                ELSE With(p_sum(src, row.i + 1), LAMBDA col :
                         IF ~col.ok \/ At(src, col.i) # "]" THEN PFail
                         ELSE POk(ECellRef(sheet, row.e, col.e), col.i + 1)))

\* let deref = raw_ref.map(.. Expr::cell_deref(Expr::cell_ref(..)))
p_deref(src, i) ==
    With(p_raw_ref(src, i), LAMBDA r : IF r.ok THEN POk(ECellDeref(r.e), r.i) ELSE PFail)

\* let cref = just('&').then(raw_ref)
p_cref(src, i) ==
    IF At(src, i) = "&" THEN p_raw_ref(src, i + 1) ELSE PFail

\* expr.delimited_by(just('('), just(')'))
p_paren(src, i) ==
    IF At(src, i) # "(" THEN PFail
    ELSE With(p_sum(src, i + 1), LAMBDA a :
             IF a.ok /\ At(src, a.i) = ")" THEN POk(a.e, a.i + 1) ELSE PFail)

\* let atom = choice((num, boolean, (expr), 'string', call, cref, deref)).padded()
p_atom(src, i) ==
    With(skip_ws(src, i), LAMBDA b :
        With(Choice(<<p_num(src, b), p_boolean(src, b), p_paren(src, b), p_string(src, b),
                      p_call(src, b), p_cref(src, b), p_deref(src, b)>>), LAMBDA a :
            IF a.ok THEN POk(a.e, skip_ws(src, a.i)) ELSE PFail))

\* let unary = op('-').repeated().foldr(atom, |_op, rhs| Expr::neg(rhs))
p_unary(src, i) ==
    LET m == p_op("-", src, i)
    IN IF m.ok
       THEN With(p_unary(src, m.i), LAMBDA rhs :
                IF rhs.ok THEN POk(ENeg(rhs.e), rhs.i) ELSE PFail)
       ELSE p_atom(src, i)

\* the repetition of product: ('*' | '/') then unary, folded to the left
p_product_rest(src, lhs, i) ==
    LET mul == p_op("*", src, i)
        div == p_op("/", src, i)
        o == IF mul.ok THEN mul ELSE div
    IN IF ~o.ok THEN POk(lhs, i)
       ELSE With(p_unary(src, o.i), LAMBDA rhs :
                IF ~rhs.ok THEN POk(lhs, i)
                ELSE p_product_rest(src, IF o.e = "*" THEN EMul(lhs, rhs.e)
                                         ELSE EDiv(lhs, rhs.e), rhs.i))

\* let product = unary.foldl(.., |lhs, (op, rhs)| op(lhs, rhs))
p_product(src, i) ==
    With(p_unary(src, i), LAMBDA lhs :
        IF lhs.ok THEN p_product_rest(src, lhs.e, lhs.i) ELSE PFail)

\* the repetition of sum with a slip: the operators group to the right
p_sum_rest_to_the_right(src, lhs, i) ==
    LET add == p_op("+", src, i)
        sub == p_op("-", src, i)
        o == IF add.ok THEN add ELSE sub
    IN IF ~o.ok THEN POk(lhs, i)
       ELSE With(p_sum(src, o.i), LAMBDA rhs :
                IF ~rhs.ok THEN POk(lhs, i)
                ELSE POk(IF o.e = "+" THEN EAdd(lhs, rhs.e) ELSE ESub(lhs, rhs.e), rhs.i))

\* the repetition of sum: ('+' | '-') then product, folded to the left
p_sum_rest(src, lhs, i) ==
    LET add == p_op("+", src, i)
        sub == p_op("-", src, i)
        o == IF add.ok THEN add ELSE sub
    IN IF ~o.ok THEN POk(lhs, i)
       ELSE With(p_product(src, o.i), LAMBDA rhs :
                IF ~rhs.ok THEN POk(lhs, i)
                ELSE p_sum_rest(src, IF o.e = "+" THEN EAdd(lhs, rhs.e)
                                     ELSE ESub(lhs, rhs.e), rhs.i))

\* let sum = product.foldl(.., |lhs, (op, rhs)| op(lhs, rhs))
p_sum(src, i) ==
    With(p_product(src, i), LAMBDA lhs :
        IF lhs.ok THEN p_sum_rest(src, lhs.e, lhs.i) ELSE PFail)

\* parser().parse(script): the whole script must be consumed
parser(script) ==
    With(p_sum(script, 1), LAMBDA r :
        IF r.ok /\ r.i = Len(script) + 1 THEN r ELSE PFail)

\* formula.rs: the unwind of a panic, which is no value of Result
Panicked == [ok |-> FALSE, err |-> "panicked"]

\* Formula::parse: the ParseResult is unwrapped
Formula_parse(script) ==
    With(parser(script), LAMBDA r :
        IF r.ok THEN Ok(Formula(Str(script), r.e)) ELSE Panicked)

\* impl TryFrom<&str> for Value
try_from_str(value) ==
    IF At(value, 1) = "=" THEN Formula_parse(Tail(value))
    ELSE Ok(String(Str(value)))

(***************************************************************************)
(* lib.rs: the engine state.  A key of cache and dependencies is the pair  *)
(* <<SheetIdx, CellIdx>>.  An engine value sl is the record of sheets,     *)
(* cache and dependencies; its field refs is a history of the model: the   *)
(* pairs <<dependent, dependee>> of every reference evaluated since the    *)
(* call began.  guards counts, for each RefCell, the Ref guards that are   *)
(* alive, and chain lists the cells whose formula is being evaluated by    *)
(* the get calls that have not returned yet.                               *)
(***************************************************************************)
Key(sref, cref) == <<sref, cref>>
Calculating == [t |-> "Calculating"]
Calculated(value) == [t |-> "Calculated", value |-> value]

Engine(sh, ca, de) ==
    [sheets |-> sh, cache |-> ca, dependencies |-> de, refs |-> {},
     guards |-> [cell \in {"cache", "dependencies"} |-> 0], chain |-> <<>>]

\* RefCell::borrow: a Ref guard more on the cell
borrow(sl, cell) == [sl EXCEPT !.guards[cell] = @ + 1]
\* the drop of a Ref guard
drop_guard(sl, cell) == [sl EXCEPT !.guards[cell] = @ - 1]
\* RefCell::borrow_mut panics while a guard on the cell is alive
AlreadyBorrowed == [ok |-> FALSE, err |-> "already borrowed"]

\* a get that starts to evaluate a formula it is already evaluating would
\* recurse without end; the model stops there with this result
Revisited == [ok |-> FALSE, err |-> "revisited"]

\* derived Ord of (SheetIdx, CellIdx): sheet, then row, then col
KeyLess(a, b) ==
    \/ a[1] < b[1]
    \/ a[1] = b[1] /\ a[2].row < b[2].row
    \/ a[1] = b[1] /\ a[2].row = b[2].row /\ a[2].col < b[2].col

\* the elements of a BTreeSet / the keys of a BTreeMap in iteration order
RECURSIVE InOrder(_)
InOrder(S) ==
    IF S = {} THEN <<>>
    ELSE LET m == CHOOSE x \in S : \A y \in S : x = y \/ KeyLess(x, y)
         IN <<m>> \o InOrder(S \ {m})

\* Spanleaf::get_raw_value
get_raw_value(sheets, sref, cref) ==
    IF HasKey(sheets, sref) THEN get_formula(sheets[sref], cref)
    ELSE DefaultValueResult

\* the lookup by name with a slip: the last sheet of that name is taken
find_sheet_last(sheets, sheet_name) ==
    LET named == {k \in DOMAIN sheets : sheets[k].name = sheet_name}
    IN IF named = {} THEN Err("SheetNotFound")
       ELSE Ok(CHOOSE k \in named : \A j \in named : j <= k)

\* sheets.iter().find_map(|(k, v)| (v.name == sheet_name).then_some(*k))
find_sheet(sheets, sheet_name) ==
    LET named == {k \in DOMAIN sheets : sheets[k].name = sheet_name}
    IN IF named = {} THEN Err("SheetNotFound")
       ELSE Ok(CHOOSE k \in named : \A j \in named : k <= j)

\* the two removals with a slip: the loop is left after the first dependent
clear_enter_first_only(sl, k) ==
    LET maybe_deps == IF HasKey(sl.dependencies, k) THEN sl.dependencies[k] ELSE {}
    IN [sl |-> [sl EXCEPT !.cache = MapRemove(@, k), !.dependencies = MapRemove(@, k)],
        deps |-> IF maybe_deps = {} THEN <<>> ELSE <<Head(InOrder(maybe_deps))>>]

\* the two removals of clear_from_cache, each in a scope that drops its
\* borrow: the engine they leave and the dependents the loop will visit
clear_enter(sl, k) ==
    LET maybe_deps == IF HasKey(sl.dependencies, k) THEN sl.dependencies[k] ELSE {}
    IN [sl |-> [sl EXCEPT !.cache = MapRemove(@, k), !.dependencies = MapRemove(@, k)],
        deps |-> InOrder(maybe_deps)]

\* Spanleaf::clear_from_cache with a slip: the dependents are not cleared
clear_from_cache_shallow(sl, k) ==
    [sl EXCEPT !.cache = MapRemove(@, k), !.dependencies = MapRemove(@, k)]

\* Spanleaf::clear_from_cache
RECURSIVE clear_from_cache(_, _), clear_each(_, _)
clear_from_cache(sl, k) ==
    LET entered == clear_enter(sl, k)
    IN clear_each(entered.sl, entered.deps)

\* for dep in deps { self.clear_from_cache(dep.0, dep.1) }
clear_each(sl, list) ==
    IF list = <<>> THEN sl
    ELSE clear_each(clear_from_cache(sl, Head(list)), Tail(list))

(***************************************************************************)
(* language.rs eval and lib.rs Spanleaf::get, which call each other.  A    *)
(* context ctx is the record of the engine sl, curr_sheet and the          *)
(* dependencies list of the get that runs the evaluation.  eval returns    *)
(* the context it leaves and the Result.                                   *)
(***************************************************************************)
EvalCtx(sl, curr_sheet, deps) == [sl |-> sl, curr_sheet |-> curr_sheet, dependencies |-> deps]
Out(ctx, res) == [ctx |-> ctx, res |-> res]

apply_binary(t, lhs, rhs) ==
    CASE t = "Add" -> value_add(lhs, rhs)
      [] t = "Sub" -> value_sub(lhs, rhs)
      [] t = "Mul" -> value_mul(lhs, rhs)
      [] t = "Div" -> value_div(lhs, rhs)

\* arg_vals.into_iter().try_fold(Value::None, ops::Add::add)
RECURSIVE try_fold_add(_, _)
try_fold_add(acc, arg_vals) ==
    IF arg_vals = <<>> THEN Ok(acc)
    ELSE LET r == value_add(acc, Head(arg_vals))
         IN IF r.ok THEN try_fold_add(r.v, Tail(arg_vals)) ELSE r

RECURSIVE eval(_, _), eval_args(_, _, _), Spanleaf_get(_, _, _)

\* functions::math::sum with a slip: the fold starts from zero
sum_from_zero(ctx, args) ==
    LET a == eval_args(args, ctx, <<>>)
    IN IF ~a.res.ok THEN a ELSE Out(a.ctx, try_fold_add(Number(Zero(1)), a.res.v))

\* functions::math::sum
sum(ctx, args) ==
    LET a == eval_args(args, ctx, <<>>)
    IN IF ~a.res.ok THEN a ELSE Out(a.ctx, try_fold_add(None, a.res.v))

\* functions::statistical::average
average(ctx, args) ==
    IF Len(args) = 0 THEN Out(ctx, Ok(Number(F64(0, 1))))
    ELSE LET s == sum(ctx, args)
         IN IF ~s.res.ok THEN s
            ELSE Out(s.ctx, value_div(s.res.v, Number(F64(Len(args), 1))))

\* for arg in args { arg_vals.push(eval(arg, ctx)?) }
eval_args(args, ctx, arg_vals) ==
    IF args = <<>> THEN Out(ctx, Ok(arg_vals))
    ELSE LET a == eval(Head(args), ctx)
         IN IF ~a.res.ok THEN a
            ELSE eval_args(Tail(args), a.ctx, Append(arg_vals, a.res.v))

\* language::eval
eval(expr, ctx) ==
    CASE expr.t = "Number" -> Out(ctx, Ok(Number(expr.f)))
      [] expr.t = "String" -> Out(ctx, Ok(String(expr.s)))
      [] expr.t = "Bool" -> Out(ctx, Ok(Bool(expr.b)))
      [] expr.t = "Sheet" -> Out(ctx, Ok(String(expr.name)))
      [] expr.t = "CellRef" ->
            LET r == eval(expr.row, ctx)
            IN IF ~r.res.ok THEN r
               ELSE IF r.res.v.t # "Number" THEN Out(r.ctx, Err("RefMustBeNumber"))
               ELSE LET c == eval(expr.col, r.ctx)
               IN IF ~c.res.ok THEN c
               ELSE IF c.res.v.t # "Number" THEN Out(c.ctx, Err("RefMustBeNumber"))
               ELSE LET s == IF expr.sheet_ref = <<>> THEN Out(c.ctx, Ok(ctx.curr_sheet))
                             ELSE LET n == eval(expr.sheet_ref[1], c.ctx)
                                  IN IF ~n.res.ok THEN n
                                     ELSE IF n.res.v.t # "String"
                                          THEN Out(n.ctx, Err("RefMustBeNumber"))
                                     ELSE Out(n.ctx, find_sheet(n.ctx.sl.sheets, n.res.v.s))
               IN IF ~s.res.ok THEN s
               ELSE LET sref == s.res.v
                        cref == CellIdx(as_u64(r.res.v.f), as_u64(c.res.v.f))
                    IN Out([s.ctx EXCEPT !.dependencies = Append(@, Key(sref, cref))],
                           Ok(Ref(sref, cref)))
      [] expr.t = "CellDeref" ->
            LET r == eval(expr.e, ctx)
            IN IF ~r.res.ok THEN r
               ELSE IF r.res.v.t # "Ref" THEN Out(r.ctx, Err("RefMustBeNumber"))
               ELSE LET g == Spanleaf_get(r.ctx.sl, r.res.v.sref, r.res.v.cref)
                    IN Out([r.ctx EXCEPT !.sl = g.sl],
                           IF g.res.ok THEN Ok(g.res.v.value) ELSE g.res)
      [] expr.t = "Neg" ->
            LET a == eval(expr.expr, ctx)
            IN IF ~a.res.ok THEN a ELSE Out(a.ctx, value_neg(a.res.v))
      [] expr.t \in {"Add", "Sub", "Mul", "Div"} ->
            LET a == eval(expr.lhs, ctx)
            IN IF ~a.res.ok THEN a
               ELSE LET b == eval(expr.rhs, a.ctx)
                    IN IF ~b.res.ok THEN b
                       ELSE Out(b.ctx, apply_binary(expr.t, a.res.v, b.res.v))
      [] expr.t = "Call" ->
            CASE expr.fn_name = "sum" -> sum(ctx, expr.args)
              [] expr.fn_name = "average" -> average(ctx, expr.args)
              [] OTHER -> Out(ctx, Err("FunctionNotAvailable"))

\* the loop with a slip: it is left after the first dependency
establish_first_only(dependencies, deps, k) ==
    IF deps = <<>> THEN dependencies
    ELSE LET dep == Head(deps)
             old == IF HasKey(dependencies, dep) THEN dependencies[dep] ELSE {}
         IN MapInsert(dependencies, dep, old \cup {k})

\* for dep in deps { dependencies.entry(dep).or_default().insert((sref, cref)) }
RECURSIVE establish(_, _, _)
establish(dependencies, deps, k) ==
    IF deps = <<>> THEN dependencies
    ELSE LET dep == Head(deps)
             old == IF HasKey(dependencies, dep) THEN dependencies[dep] ELSE {}
         IN establish(MapInsert(dependencies, dep, old \cup {k}), Tail(deps), k)

NoteRefs(sl, k, deps) ==
    [sl EXCEPT !.refs = @ \cup {<<k, deps[i]>> : i \in 1..Len(deps)}]

\* the plain read with a slip: the value is cached like a result
get_plain_cached(sl, k, val_res) ==
    [sl |-> [sl EXCEPT !.cache = MapInsert(@, k, Calculated(val_res.value))],
     res |-> Ok(val_res)]

\* Spanleaf::get of a value that is no formula: val_res as it is
get_plain(sl, k, val_res) == [sl |-> sl, res |-> Ok(val_res)]

\* the assignment with a slip: a fresh ValueResult, whose source is Native
resolved_native(val_res, value) == Ok(ValueResult(value, "Native"))

\* *val_res = value: the value replaces the formula, the source stays
resolved(val_res, value) == Ok([val_res EXCEPT !.value = value])

\* the edition the crate is built with: it decides where the temporaries of
\* an if let scrutinee are dropped.  The tests of language.rs, which unwrap a
\* get that misses the cache, pass with edition 2024 only
Edition == 2024

\* the else block entered with the guard of the scrutinee still alive, as
\* the editions before 2024 scope it
if_let_else_keeps_guard(sl) == sl

\* the else block of if let Some(cached) = self.cache.borrow().get(..): the
\* temporaries of the scrutinee are dropped before the block is entered
if_let_else(sl) == IF Edition >= 2024 THEN drop_guard(sl, "cache") ELSE sl

\* set cycle trap with a slip: nothing is inserted
set_trap_forgotten(sl, k) == sl

\* set cycle trap
set_trap(sl, k) == [sl EXCEPT !.cache = MapInsert(@, k, Calculating)]

\* clear cycle trap with a slip: the entry replaced is expected to be a result
clear_trap_expects_result(sl, k, value) ==
    LET prev == IF HasKey(sl.cache, k) THEN sl.cache[k] ELSE None
    IN [sl |-> [sl EXCEPT !.cache = MapInsert(@, k, Calculated(value))],
        res |-> IF prev.t = "Calculated" THEN Ok(value) ELSE Err("InconsistentCaching")]

\* clear cycle trap: the entry that insert replaces must be Calculating
clear_trap(sl, k, value) ==
    LET prev == IF HasKey(sl.cache, k) THEN sl.cache[k] ELSE None
    IN [sl |-> [sl EXCEPT !.cache = MapInsert(@, k, Calculated(value))],
        res |-> IF prev = Calculating THEN Ok(value) ELSE Err("InconsistentCaching")]

\* the call chain of the model: the evaluation of the formula of k begins, ends
enter(sl, k) == [sl EXCEPT !.chain = Append(@, k)]
leave(sl) == [sl EXCEPT !.chain = SubSeq(@, 1, Len(@) - 1)]

\* Spanleaf::get: the engine it leaves and Result<ValueResult, Error>
Spanleaf_get(sl, sref, cref) ==
    LET val_res == get_raw_value(sl.sheets, sref, cref)
        k == Key(sref, cref)
    IN IF val_res.value.t # "Formula" THEN get_plain(sl, k, val_res)
       ELSE IF HasKey(sl.cache, k)
       THEN With(drop_guard(borrow(sl, "cache"), "cache"), LAMBDA seen :
                [sl |-> seen,
                 res |-> IF seen.cache[k].t = "Calculating"
                         THEN Err("CyclicDependencyDetected")
                         ELSE IF \E i \in DOMAIN seen.chain : seen.chain[i] = k
                         THEN Revisited
                         ELSE resolved(val_res, seen.cache[k].value)])
       ELSE With(if_let_else(borrow(sl, "cache")), LAMBDA missed :
            IF \E i \in DOMAIN missed.chain : missed.chain[i] = k
            THEN [sl |-> missed, res |-> Revisited]
            ELSE IF missed.guards["cache"] # 0 THEN [sl |-> missed, res |-> AlreadyBorrowed]
            ELSE With(eval(val_res.value.expr, EvalCtx(enter(set_trap(missed, k), k), sref, <<>>)),
                      LAMBDA e :
                With(leave(NoteRefs(e.ctx.sl, k, e.ctx.dependencies)), LAMBDA noted :
                    IF ~e.res.ok THEN [sl |-> noted, res |-> e.res]
                    ELSE IF noted.guards["dependencies"] # 0 \/ noted.guards["cache"] # 0
                    THEN [sl |-> noted, res |-> AlreadyBorrowed]
                    ELSE With(clear_trap([noted EXCEPT !.dependencies =
                                             establish(@, e.ctx.dependencies, k)], k, e.res.v),
                              LAMBDA cleared :
                        [sl |-> cleared.sl,
                         res |-> IF cleared.res.ok THEN resolved(val_res, cleared.res.v)
                                 ELSE cleared.res]))))

\* Spanleaf::insert_row_default / insert_col_default: the dependants of every
\* key of dependencies that lies on the row (the column), in map order
RECURSIVE flat_map(_, _)
flat_map(keys, dependencies) ==
    IF keys = <<>> THEN <<>>
    ELSE InOrder(dependencies[Head(keys)]) \o flat_map(Tail(keys), dependencies)

to_clear_row(sl, sheet, row) ==
    flat_map(InOrder({k \in DOMAIN sl.dependencies : k[1] = sheet /\ k[2].row = row}),
             sl.dependencies)

to_clear_col(sl, sheet, col) ==
    flat_map(InOrder({k \in DOMAIN sl.dependencies : k[1] = sheet /\ k[2].col = col}),
             sl.dependencies)

\* the three inserts return the engine they leave and the previous value
Spanleaf_insert_row_default(sl, sheet, row, val) ==
    LET cleared == clear_each(sl, to_clear_row(sl, sheet, row))
    IN IF HasKey(sl.sheets, sheet)
       THEN LET w == Sheet_insert_row_default(sl.sheets[sheet], row, val)
            IN [sl |-> [cleared EXCEPT !.sheets[sheet] = w.sheet], res |-> Ok(w.prev)]
       ELSE [sl |-> cleared, res |-> Ok(None)]

Spanleaf_insert_col_default(sl, sheet, col, val) ==
    LET cleared == clear_each(sl, to_clear_col(sl, sheet, col))
    IN IF HasKey(sl.sheets, sheet)
       THEN LET w == Sheet_insert_col_default(sl.sheets[sheet], col, val)
            IN [sl |-> [cleared EXCEPT !.sheets[sheet] = w.sheet], res |-> Ok(w.prev)]
       ELSE [sl |-> cleared, res |-> Ok(None)]

Spanleaf_insert(sl, sheet, cref, val) ==
    LET cleared == clear_from_cache(sl, Key(sheet, cref))
    IN IF HasKey(sl.sheets, sheet)
       THEN LET w == Sheet_insert(sl.sheets[sheet], cref, val)
            IN [sl |-> [cleared EXCEPT !.sheets[sheet] = w.sheet], res |-> Ok(w.prev)]
       ELSE [sl |-> cleared, res |-> Ok(None)]

\* The three inserts with T = &str.  The conversion runs in the insert of
\* the Sheet: after the cache is cleared, and only if the sheet exists.
Spanleaf_insert_str(sl, sheet, cref, src) ==
    With(try_from_str(src), LAMBDA val :
        IF ~HasKey(sl.sheets, sheet) \/ val.ok
        THEN Spanleaf_insert(sl, sheet, cref, IF HasKey(sl.sheets, sheet) THEN val.v ELSE None)
        ELSE [sl |-> clear_from_cache(sl, Key(sheet, cref)), res |-> val])

Spanleaf_insert_row_default_str(sl, sheet, row, src) ==
    With(try_from_str(src), LAMBDA val :
        IF ~HasKey(sl.sheets, sheet) \/ val.ok
        THEN Spanleaf_insert_row_default(sl, sheet, row, IF HasKey(sl.sheets, sheet) THEN val.v ELSE None)
        ELSE [sl |-> clear_each(sl, to_clear_row(sl, sheet, row)), res |-> val])

Spanleaf_insert_col_default_str(sl, sheet, col, src) ==
    With(try_from_str(src), LAMBDA val :
        IF ~HasKey(sl.sheets, sheet) \/ val.ok
        THEN Spanleaf_insert_col_default(sl, sheet, col, IF HasKey(sl.sheets, sheet) THEN val.v ELSE None)
        ELSE [sl |-> clear_each(sl, to_clear_col(sl, sheet, col)), res |-> val])

(***************************************************************************)
(* The inputs of the explored calls.                                       *)
(***************************************************************************)
One == F64(1, 1)
Two == F64(2, 1)
Lit(n) == ENumber(F64(n, 1))

\* "=[0,0]", "=[0,1]": a dereference in the sheet of the formula
F00 == Formula("[0,0]", ECellDeref(ECellRef(<<>>, Lit(0), Lit(0))))
F01 == Formula("[0,1]", ECellDeref(ECellRef(<<>>, Lit(0), Lit(1))))
\* "=A[0,0]": a dereference in the sheet named A
FA00 == Formula("A[0,0]", ECellDeref(ECellRef(<<ESheet("A")>>, Lit(0), Lit(0))))
\* "=&[0,0]": a reference that is not dereferenced
R00 == Formula("&[0,0]", ECellRef(<<>>, Lit(0), Lit(0)))
\* "=[[0,0],1]": a dereference whose row index is a dereference
FX == Formula("[[0,0],1]",
              ECellDeref(ECellRef(<<>>, ECellDeref(ECellRef(<<>>, Lit(0), Lit(0))), Lit(1))))
\* "=2": a formula without references
L2 == Formula("2", Lit(2))

InputCells == {CellIdx(0, 0), CellIdx(0, 1), CellIdx(1, 1)}
ReadCells == InputCells \cup {CellIdx(1, 0)}
InputRows == {0}
InputCols == {1}
\* the values written in Spec, in SpecNative and in SpecSheet
InputValues == {None, Number(One), F00, F01, L2}
NativeValues == {None, Number(One), F00, F01, FA00}
PlainValues == {None, Number(One), Number(Two), L2}

(***************************************************************************)
(* The state: one engine, the process-wide COUNTER of SheetIdx::next, and  *)
(* histories of the model: the number of public calls made, the last call  *)
(* with what it returned and the cache as it was before it, whether some   *)
(* get has returned an error, and native: for each <<SheetIdx, CellIdx>>   *)
(* the value the last insert stored there, absent after an insert of       *)
(* Value::None.  peer holds the sheets of a second Spanleaf of the same     *)
(* process, which draws its SheetIdx from the same COUNTER.  input holds   *)
(* the operands a client applies the Value operators to, or the script it  *)
(* parses and evaluates; the engine never reads it.                        *)
(***************************************************************************)
VARIABLES sheets, cache, dependencies, COUNTER, nops, last, failed, native, peer, input

vars == <<sheets, cache, dependencies, COUNTER, nops, last, failed, native, peer, input>>

Self == Engine(sheets, cache, dependencies)

Call(op, sref, cref, idx, val, res) ==
    [op |-> op, sref |-> sref, cref |-> cref, idx |-> idx, val |-> val, res |-> res,
     before |-> cache]

NoCell == CellIdx(0, 0)

\* Spanleaf::new
Init ==
    /\ sheets = EmptyMap
    /\ cache = EmptyMap
    /\ dependencies = EmptyMap
    /\ COUNTER = 0
    /\ nops = 0
    /\ last = Call("new", 0, NoCell, 0, None, Ok(None))
    /\ failed = FALSE
    /\ native = EmptyMap
    /\ peer = EmptyMap
    /\ input = <<>>

Returned(sl) ==
    /\ sheets' = sl.sheets
    /\ cache' = sl.cache
    /\ dependencies' = sl.dependencies

\* SheetIdx::next with a slip: the counter is loaded and not incremented
SheetIdx_next_load(counter) == [sref |-> counter, COUNTER |-> counter]

\* SheetIdx::next: fetch_add(1) on the static COUNTER, an AtomicU64
SheetIdx_next(counter) == [sref |-> counter, COUNTER |-> (counter + 1) % WordMod]

\* Spanleaf::insert_sheet with SheetIdx::next
InsertSheet(name) ==
    /\ nops < MaxOps
    /\ COUNTER < MaxSheets
    /\ LET next == SheetIdx_next(COUNTER)
       IN /\ sheets' = MapInsert(sheets, next.sref, NewSheet(name))
          /\ COUNTER' = next.COUNTER
          /\ last' = Call("insert_sheet", next.sref, NoCell, 0, None, Ok(None))
    /\ nops' = nops + 1
    /\ UNCHANGED <<cache, dependencies, failed, native, peer, input>>

\* Spanleaf::insert_sheet of the second Spanleaf of the process
PeerInsertSheet(name) ==
    /\ nops < MaxOps
    /\ COUNTER < MaxSheets
    /\ LET next == SheetIdx_next(COUNTER)
       IN /\ peer' = MapInsert(peer, next.sref, NewSheet(name))
          /\ COUNTER' = next.COUNTER
          /\ last' = Call("insert_sheet", next.sref, NoCell, 0, None, Ok(None))
    /\ nops' = nops + 1
    /\ UNCHANGED <<sheets, cache, dependencies, failed, native, input>>

Insert(sref, cref, val) ==
    /\ nops < MaxOps
    /\ LET r == Spanleaf_insert(Self, sref, cref, val)
       IN /\ Returned(r.sl)
          /\ last' = Call("insert", sref, cref, 0, val, r.res)
    /\ native' = IF ~HasKey(sheets, sref) THEN native
                 ELSE IF val = None THEN MapRemove(native, Key(sref, cref))
                 ELSE MapInsert(native, Key(sref, cref), val)
    /\ nops' = nops + 1
    /\ UNCHANGED <<COUNTER, failed, peer, input>>

InsertRowDefault(sref, row, val) ==
    /\ nops < MaxOps
    /\ LET r == Spanleaf_insert_row_default(Self, sref, row, val)
       IN /\ Returned(r.sl)
          /\ last' = Call("insert_row_default", sref, NoCell, row, val, r.res)
    /\ nops' = nops + 1
    /\ UNCHANGED <<COUNTER, failed, native, peer, input>>

InsertColDefault(sref, col, val) ==
    /\ nops < MaxOps
    /\ LET r == Spanleaf_insert_col_default(Self, sref, col, val)
       IN /\ Returned(r.sl)
          /\ last' = Call("insert_col_default", sref, NoCell, col, val, r.res)
    /\ nops' = nops + 1
    /\ UNCHANGED <<COUNTER, failed, native, peer, input>>

Get(sref, cref) ==
    /\ nops < MaxOps
    /\ LET r == Spanleaf_get(Self, sref, cref)
       IN /\ Returned(r.sl)
          /\ last' = Call("get", sref, cref, 0, None, r.res)
          /\ failed' = (failed \/ ~r.res.ok)
    /\ nops' = nops + 1
    /\ UNCHANGED <<COUNTER, native, peer, input>>

GetRaw(sref, cref) ==
    /\ nops < MaxOps
    /\ last' = Call("get_raw_value", sref, cref, 0, None,
                    Ok(get_raw_value(sheets, sref, cref)))
    /\ nops' = nops + 1
    /\ UNCHANGED <<sheets, cache, dependencies, COUNTER, failed, native, peer, input>>

\* every public call, sheets named A
Next ==
    \/ InsertSheet("A")
    \/ \E sref \in DOMAIN sheets, cref \in InputCells, val \in InputValues :
          Insert(sref, cref, val)
    \/ \E sref \in DOMAIN sheets, row \in InputRows, val \in InputValues :
          InsertRowDefault(sref, row, val)
    \/ \E sref \in DOMAIN sheets, col \in InputCols, val \in InputValues :
          InsertColDefault(sref, col, val)
    \/ \E sref \in DOMAIN sheets, cref \in ReadCells : Get(sref, cref)
    \/ \E sref \in DOMAIN sheets, cref \in ReadCells : GetRaw(sref, cref)

Spec == Init /\ [][Next]_vars

\* insert_sheet, insert and get only, sheets named A or B
NextNative ==
    \/ \E name \in {"A", "B"} : InsertSheet(name)
    \/ \E sref \in DOMAIN sheets, cref \in InputCells, val \in NativeValues :
          Insert(sref, cref, val)
    \/ \E sref \in DOMAIN sheets, cref \in InputCells : Get(sref, cref)

SpecNative == Init /\ [][NextNative]_vars

\* the calls that read and write the sheets without evaluating
NextSheet ==
    \/ InsertSheet("A")
    \/ \E sref \in DOMAIN sheets, cref \in InputCells, val \in PlainValues :
          Insert(sref, cref, val)
    \/ \E sref \in DOMAIN sheets, row \in InputRows, val \in PlainValues :
          InsertRowDefault(sref, row, val)
    \/ \E sref \in DOMAIN sheets, col \in InputCols, val \in PlainValues :
          InsertColDefault(sref, col, val)
    \/ \E sref \in DOMAIN sheets, cref \in ReadCells : GetRaw(sref, cref)

SpecSheet == Init /\ [][NextSheet]_vars

\* one sheet; formulas that take a reference with &, dereference a cell, and
\* compute an index from a cell
RefValues == {Number(One), R00, F00, F01, FX}

NextRefs ==
    \/ COUNTER = 0 /\ InsertSheet("A")
    \/ \E sref \in DOMAIN sheets, cref \in InputCells, val \in RefValues :
          Insert(sref, cref, val)
    \/ \E sref \in DOMAIN sheets, row \in InputRows, val \in {None, Number(One)} :
          InsertRowDefault(sref, row, val)
    \/ \E sref \in DOMAIN sheets, col \in InputCols, val \in {None, F00} :
          InsertColDefault(sref, col, val)
    \/ \E sref \in DOMAIN sheets, cref \in ReadCells : Get(sref, cref)

SpecRefs == Init /\ [][NextRefs]_vars

(***************************************************************************)
(* clear_from_cache is public: a client may call it on any cell.  Here the *)
(* call runs one step at a time.  input holds the key of the call, the     *)
(* cache and the dependencies as they were before it, and the stack of the *)
(* for loops that are running: of each, the dependents it has yet to       *)
(* visit.  The call has returned when the stack is empty.                  *)
(***************************************************************************)
ClearValues == {R00, F00, F01}
ClearCells == {CellIdx(0, 0), CellIdx(0, 1)}

NoClear == [k |-> Key(0, NoCell), cache |-> EmptyMap, dependencies |-> EmptyMap,
            stack |-> <<>>, calls |-> 0]

InitClear ==
    /\ sheets = EmptyMap
    /\ cache = EmptyMap
    /\ dependencies = EmptyMap
    /\ COUNTER = 0
    /\ nops = 0
    /\ last = Call("new", 0, NoCell, 0, None, Ok(None))
    /\ failed = FALSE
    /\ native = EmptyMap
    /\ peer = EmptyMap
    /\ input = NoClear

Idle == input.stack = <<>>

\* the for loop that runs
Innermost == input.stack[Len(input.stack)]

\* the call of clear_from_cache(sref, cref): its two removals
ClearBegin(sref, cref) ==
    /\ Idle
    /\ LET entered == clear_enter(Self, Key(sref, cref))
       IN /\ Returned(entered.sl)
          /\ input' = [k |-> Key(sref, cref), cache |-> cache,
                       dependencies |-> dependencies, stack |-> <<entered.deps>>,
                       calls |-> 1]
    /\ last' = Call("clear_from_cache", sref, cref, 0, None, Ok(None))
    /\ UNCHANGED <<COUNTER, nops, failed, native, peer>>

\* for dep in deps { self.clear_from_cache(dep.0, dep.1) }: the next dependent
\* of the innermost loop, and the two removals of the call made for it
ClearVisit ==
    /\ ~Idle
    /\ Innermost # <<>>
    /\ LET entered == clear_enter(Self, Head(Innermost))
       IN /\ Returned(entered.sl)
          /\ input' = [input EXCEPT
                          !.stack = Append([@ EXCEPT ![Len(input.stack)] = Tail(@)],
                                           entered.deps),
                          !.calls = @ + 1]
    /\ UNCHANGED <<COUNTER, nops, last, failed, native, peer>>

\* the innermost loop has no dependent left: its call returns
ClearReturn ==
    /\ ~Idle
    /\ Innermost = <<>>
    /\ input' = [input EXCEPT !.stack = SubSeq(@, 1, Len(@) - 1)]
    /\ UNCHANGED <<sheets, cache, dependencies, COUNTER, nops, last, failed, native, peer>>

ClearStep == ClearVisit \/ ClearReturn

\* one sheet; writes, reads and calls of clear_from_cache, none of them while
\* a call of clear_from_cache runs
NextClear ==
    \/ Idle /\ COUNTER = 0 /\ InsertSheet("A")
    \/ Idle /\ \E sref \in DOMAIN sheets, cref \in ClearCells, val \in ClearValues :
                  Insert(sref, cref, val)
    \/ Idle /\ \E sref \in DOMAIN sheets, cref \in InputCells : Get(sref, cref)
    \/ \E sref \in DOMAIN sheets, cref \in ClearCells : ClearBegin(sref, cref)
    \/ ClearVisit
    \/ ClearReturn

SpecClear == InitClear /\ [][NextClear]_vars

\* a call that has begun runs on: the thread that made it executes it
SpecClearFair == SpecClear /\ WF_vars(ClearStep)

(***************************************************************************)
(* What the properties speak about: the formula a cell holds, the cells    *)
(* its formula names, and the value a from-scratch evaluation gives.       *)
(***************************************************************************)
Scratch(sh) == Engine(sh, EmptyMap, EmptyMap)

\* get on an engine with the same sheets and an empty cache
FreshGet(sh, k) == Spanleaf_get(Scratch(sh), k[1], k[2]).res

IsFormulaCell(sh, k) == get_raw_value(sh, k[1], k[2]).value.t = "Formula"

\* the cell a CellRef node of a formula of sheet curr names
Target(cell_ref, curr, sh) ==
    LET r == eval(cell_ref, EvalCtx(Scratch(sh), curr, <<>>)).res
    IN IF r.ok THEN {Key(r.v.sref, r.v.cref)} ELSE {}

\* the cells named by the CellRef nodes of expr; with deref_only, by those
\* that are dereferenced
RECURSIVE RefNodes(_, _, _, _)
RefNodes(expr, curr, sh, deref_only) ==
    CASE expr.t = "CellRef" ->
            (IF deref_only THEN {} ELSE Target(expr, curr, sh))
            \cup RefNodes(expr.row, curr, sh, deref_only)
            \cup RefNodes(expr.col, curr, sh, deref_only)
      [] expr.t = "CellDeref" ->
            (IF expr.e.t = "CellRef" THEN Target(expr.e, curr, sh) ELSE {})
            \cup RefNodes(expr.e, curr, sh, deref_only)
      [] expr.t = "Neg" -> RefNodes(expr.expr, curr, sh, deref_only)
      [] expr.t \in {"Add", "Sub", "Mul", "Div"} ->
            RefNodes(expr.lhs, curr, sh, deref_only)
            \cup RefNodes(expr.rhs, curr, sh, deref_only)
      [] expr.t = "Call" ->
            UNION {RefNodes(expr.args[i], curr, sh, deref_only) : i \in DOMAIN expr.args}
      [] OTHER -> {}

\* the cells the formula at k names (dereferences), none if k holds no formula
CellRefs(sh, k, deref_only) ==
    LET raw == get_raw_value(sh, k[1], k[2]).value
    IN IF raw.t = "Formula" THEN RefNodes(raw.expr, k[1], sh, deref_only) ELSE {}

RECURSIVE Closure(_, _, _)
Closure(sh, S, deref_only) ==
    LET N == S \cup UNION {CellRefs(sh, k, deref_only) : k \in S}
    IN IF N = S THEN S ELSE Closure(sh, N, deref_only)

\* the cells the formula at k references, directly or transitively
TransRefs(sh, k) == Closure(sh, CellRefs(sh, k, FALSE), FALSE)
\* the cells the formula at k dereferences, directly or transitively
TransDerefs(sh, k) == Closure(sh, CellRefs(sh, k, TRUE), TRUE)

LastKey == Key(last.sref, last.cref)

(***************************************************************************)
(* C1  Cache soundness (P1): in every reachable state, for every cell      *)
(* whose cache entry is Calculated(r), evaluating the formula getRaw       *)
(* returns for the cell from scratch, with an empty cache, against the     *)
(* current sheets yields r.                                                *)
(***************************************************************************)
C1_CacheSoundness ==
    \A k \in DOMAIN cache :
        (cache[k].t = "Calculated" /\ IsFormulaCell(sheets, k)) =>
            LET f == FreshGet(sheets, k)
            IN f.ok /\ f.v.value = cache[k].value

(***************************************************************************)
(* C2  Invalidation closure (P2): right after insert(s,c,v) has returned,  *)
(* the cache holds no entry, Calculating or Calculated, for a cell whose   *)
(* formula directly or transitively references (s,c).                      *)
(***************************************************************************)
C2_InvalidationClosure ==
    last.op = "insert" =>
        \A k \in DOMAIN cache : LastKey \notin TransRefs(sheets, k)

(***************************************************************************)
(* C3  Sentinel transience (P3): after any public call has returned, with  *)
(* a value or with an error, the cache contains no Calculating entry.      *)
(***************************************************************************)
C3_SentinelTransience ==
    \A k \in DOMAIN cache : cache[k] # Calculating

(***************************************************************************)
(* The sheets as they were before the last call: the three inserts return  *)
(* the value they replaced, and writing it back restores the sheet.        *)
(***************************************************************************)
PreSheets ==
    CASE last.op = "insert" ->
            [sheets EXCEPT ![last.sref] = Sheet_insert(@, last.cref, last.res.v).sheet]
      [] last.op = "insert_row_default" ->
            [sheets EXCEPT ![last.sref] =
                Sheet_insert_row_default(@, last.idx, last.res.v).sheet]
      [] last.op = "insert_col_default" ->
            [sheets EXCEPT ![last.sref] =
                Sheet_insert_col_default(@, last.idx, last.res.v).sheet]
      [] OTHER -> sheets

\* the cells whose result was in the cache before the last call
CachedBefore == {k \in DOMAIN last.before : last.before[k].t = "Calculated"}

\* what the next get of k returns
NextGet(k) == Spanleaf_get(Self, k[1], k[2]).res

\* k lies on a cycle of dereferences
OnCycle(sh, k) == k \in TransDerefs(sh, k)

IsCyclicError(res) == ~res.ok /\ res.err = "CyclicDependencyDetected"

(***************************************************************************)
(* C4  Cycle detection: if the stored formulas form a reference cycle,     *)
(* get on a cell of the cycle, and on a cell whose formula dereferences a  *)
(* cell of the cycle, returns the error CyclicDependencyDetected and not   *)
(* a value.                                                                *)
(***************************************************************************)
C4_CycleDetected ==
    (/\ last.op = "get"
     /\ \/ OnCycle(sheets, LastKey)
        \/ \E d \in CellRefs(sheets, LastKey, TRUE) : OnCycle(sheets, d))
    => IsCyclicError(last.res)

(***************************************************************************)
(* C5  Recomputation after a native write: while only insert_sheet, insert *)
(* and get have been called and every get has succeeded, after an insert   *)
(* has overwritten a cell that a cached formula dereferenced, directly or  *)
(* transitively, in its own sheet or in a sheet referenced by name, the    *)
(* next get of that dependent returns the value a from-scratch evaluation  *)
(* of the current sheets gives; and so does every get that was made.       *)
(***************************************************************************)
C5_RecomputedAfterInsert ==
    ~failed =>
        /\ last.op = "insert" =>
              \A x \in CachedBefore :
                  (LastKey \in TransDerefs(PreSheets, x) /\ NextGet(x).ok)
                  => NextGet(x) = FreshGet(sheets, x)
        /\ last.op = "get" => last.res = FreshGet(sheets, LastKey)

\* an insert has overwritten a cell that a cached formula dereferenced only
\* through another formula cell, and the next get of the dependent returns a
\* value other than the one that was cached
C5_Witness ==
    /\ ~failed
    /\ last.op = "insert"
    /\ \E x \in CachedBefore :
          /\ LastKey \in TransDerefs(PreSheets, x)
          /\ LastKey \notin CellRefs(PreSheets, x, TRUE)
          /\ NextGet(x).ok
          /\ NextGet(x).v.value # last.before[x].value

(***************************************************************************)
(* C6  A default write invalidates dependents: if a formula cell X         *)
(* dereferences a cell Y without native value, the result of get(X) is in  *)
(* the cache, and the value of Y comes from the row default of its row     *)
(* (the column default of its column), then after insert_row_default       *)
(* (insert_col_default) of that row (column) with a value that is not a    *)
(* formula, the next get(X) returns the value computed from the new        *)
(* default.                                                                *)
(***************************************************************************)
FromRowDefault(sh, y, row) ==
    /\ y[2].row = row
    /\ ~HasKey(sh[y[1]].cells, cell_ref_to_shell_off(y[2]))
    /\ ~HasKey(sh[y[1]].col_defaults, y[2].col)

FromColDefault(sh, y, col) ==
    /\ y[2].col = col
    /\ ~HasKey(sh[y[1]].cells, cell_ref_to_shell_off(y[2]))

C6_DefaultWriteRecomputes ==
    (last.op \in {"insert_row_default", "insert_col_default"} /\ last.val.t # "Formula")
    => \A x \in CachedBefore :
          (/\ IsFormulaCell(PreSheets, x)
           /\ \E y \in CellRefs(PreSheets, x, TRUE) :
                 /\ y[1] = last.sref
                 /\ IF last.op = "insert_row_default"
                    THEN FromRowDefault(sheets, y, last.idx)
                    ELSE FromColDefault(sheets, y, last.idx))
          => NextGet(x) = FreshGet(sheets, x)

(***************************************************************************)
(* C7  A default formula replacement is visible: if the raw value of a     *)
(* cell is a formula supplied by a row default or a column default and the *)
(* result of its get is in the cache, then after insert_row_default /      *)
(* insert_col_default has replaced that default by a formula with another  *)
(* value, the next get of the cell returns the value of the new formula.   *)
(***************************************************************************)
SuppliedByDefault(sh, x) ==
    LET raw == get_raw_value(sh, x[1], x[2])
    IN /\ raw.value.t = "Formula"
       /\ x[1] = last.sref
       /\ \/ last.op = "insert_row_default" /\ raw.source = "RowDefault"
                /\ x[2].row = last.idx
          \/ last.op = "insert_col_default" /\ raw.source = "ColDefault"
                /\ x[2].col = last.idx

C7_DefaultFormulaReplaced ==
    (last.op \in {"insert_row_default", "insert_col_default"} /\ last.val.t = "Formula")
    => \A x \in CachedBefore :
          (/\ SuppliedByDefault(PreSheets, x)
           /\ SuppliedByDefault(sheets, x)
           /\ FreshGet(PreSheets, x).ok
           /\ FreshGet(sheets, x).ok
           /\ FreshGet(sheets, x).v.value # FreshGet(PreSheets, x).v.value)
          => NextGet(x) = FreshGet(sheets, x)

(***************************************************************************)
(* C8  Lookup precedence (P6): in every sheet state and for every cell,    *)
(* getRaw returns the native value tagged Native if the cell has one;      *)
(* otherwise the column default of its column tagged ColDefault if there   *)
(* is one; otherwise the row default of its row tagged RowDefault if       *)
(* there is one; otherwise Empty tagged Native.                            *)
(***************************************************************************)
Precedence(k) ==
    LET sheet == sheets[k[1]]
        col == k[2].col
        row == k[2].row
    IN CASE k \in DOMAIN native -> [value |-> native[k], source |-> "Native"]
         [] k \notin DOMAIN native /\ col \in DOMAIN sheet.col_defaults ->
               [value |-> sheet.col_defaults[col], source |-> "ColDefault"]
         [] k \notin DOMAIN native /\ col \notin DOMAIN sheet.col_defaults
               /\ row \in DOMAIN sheet.row_defaults ->
               [value |-> sheet.row_defaults[row], source |-> "RowDefault"]
         [] OTHER -> [value |-> None, source |-> "Native"]

C8_LookupPrecedence ==
    /\ \A sref \in DOMAIN sheets, cref \in ReadCells :
          get_raw_value(sheets, sref, cref) = Precedence(Key(sref, cref))
    /\ last.op = "get_raw_value" => last.res = Ok(Precedence(LastKey))

\* getRaw has returned the native value of a cell on which a column default
\* and a row default apply as well
C8_Witness ==
    /\ last.op = "get_raw_value"
    /\ LastKey \in DOMAIN native
    /\ last.cref.col \in DOMAIN sheets[last.sref].col_defaults
    /\ last.cref.row \in DOMAIN sheets[last.sref].row_defaults
    /\ last.res.v = [value |-> native[LastKey], source |-> "Native"]

(***************************************************************************)
(* C9  insert(cell, value) with a value other than Empty returns the value *)
(* that was stored natively at the cell (Empty if none was, also when a    *)
(* row or column default applies to the cell), and afterwards getRaw(cell) *)
(* returns the new value tagged Native.                                    *)
(***************************************************************************)
C9_InsertReturnsPrevious ==
    [][(last'.op = "insert" /\ last'.val # None)
       => /\ last'.res = Ok(IF LastKey' \in DOMAIN native THEN native[LastKey'] ELSE None)
          /\ get_raw_value(sheets', last'.sref, last'.cref)
                = [value |-> last'.val, source |-> "Native"]]_vars

\* an insert of a value on a cell without native value, on which a default
\* applies, has returned Empty
C9_Witness ==
    /\ last.op = "insert"
    /\ last.val # None
    /\ last.res = Ok(None)
    /\ \/ last.cref.col \in DOMAIN sheets[last.sref].col_defaults
       \/ last.cref.row \in DOMAIN sheets[last.sref].row_defaults
    /\ get_raw_value(sheets, last.sref, last.cref).source = "Native"

(***************************************************************************)
(* C10  Inserting Empty is removal: after insert(cell, Empty) the cell has *)
(* no native entry and getRaw(cell) falls through to the column default,   *)
(* then the row default, then Empty; after insert_row_default(row, Empty)  *)
(* and insert_col_default(col, Empty) the default is gone and no lookup    *)
(* sees it.                                                                *)
(***************************************************************************)
DefaultsOnly(sheet, cref) ==
    CASE cref.col \in DOMAIN sheet.col_defaults ->
            [value |-> sheet.col_defaults[cref.col], source |-> "ColDefault"]
      [] cref.col \notin DOMAIN sheet.col_defaults
            /\ cref.row \in DOMAIN sheet.row_defaults ->
            [value |-> sheet.row_defaults[cref.row], source |-> "RowDefault"]
      [] OTHER -> [value |-> None, source |-> "Native"]

C10_InsertEmptyRemoves ==
    /\ (last.op = "insert" /\ last.val = None) =>
          /\ cell_ref_to_shell_off(last.cref) \notin DOMAIN sheets[last.sref].cells
          /\ get_raw_value(sheets, last.sref, last.cref)
                = DefaultsOnly(sheets[last.sref], last.cref)
    /\ (last.op = "insert_row_default" /\ last.val = None) =>
          /\ last.idx \notin DOMAIN sheets[last.sref].row_defaults
          /\ \A cref \in ReadCells :
                cref.row = last.idx =>
                    get_raw_value(sheets, last.sref, cref).source # "RowDefault"
    /\ (last.op = "insert_col_default" /\ last.val = None) =>
          /\ last.idx \notin DOMAIN sheets[last.sref].col_defaults
          /\ \A cref \in ReadCells :
                cref.col = last.idx =>
                    get_raw_value(sheets, last.sref, cref).source # "ColDefault"

\* insert(cell, Empty) has removed a native value and getRaw(cell) now
\* returns the column default
C10_Witness ==
    /\ last.op = "insert"
    /\ last.val = None
    /\ last.res.v # None
    /\ get_raw_value(sheets, last.sref, last.cref).source = "ColDefault"

(***************************************************************************)
(* Cells far from the origin.  Wrap is the least power of two whose square *)
(* does not fit the machine word; FarCells holds two cells near the        *)
(* origin, the cell (Wrap, Wrap) and the cells below Wrap that are stored  *)
(* at the offset Wrap.                                                     *)
(***************************************************************************)
Wrap == 2 ^ ((WordBits + 1) \div 2)

FarCells ==
    {CellIdx(0, 0), CellIdx(1, 0), CellIdx(Wrap, Wrap)}
    \cup {c \in [row : 0..(Wrap - 1), col : 0..(Wrap - 1)] : cell_ref_to_shell_off(c) = Wrap}

FarValues == {None, Number(One), Number(Two)}

\* native writes and raw reads on FarCells, no defaults
NextOffset ==
    \/ InsertSheet("A")
    \/ \E sref \in DOMAIN sheets, cref \in FarCells, val \in FarValues :
          Insert(sref, cref, val)
    \/ \E sref \in DOMAIN sheets, cref \in FarCells : GetRaw(sref, cref)

SpecOffset == Init /\ [][NextOffset]_vars

(***************************************************************************)
(* C11  Shell-offset injectivity (P4): for two distinct cells a and b of   *)
(* one sheet, insert(a, v) leaves getRaw(b) unchanged and getRaw(a)        *)
(* returns v: the offset never maps two distinct cells to one key.         *)
(***************************************************************************)
C11_OffsetInjective ==
    [][last'.op = "insert" =>
          /\ \A b \in FarCells \ {last'.cref} :
                get_raw_value(sheets', last'.sref, b) = get_raw_value(sheets, last'.sref, b)
          /\ get_raw_value(sheets', last'.sref, last'.cref).value = last'.val]_vars

(***************************************************************************)
(* The Value operators applied by a client.  input is the pair of          *)
(* operands; each application takes input[1] as the left (or only)         *)
(* operand and, when it succeeds, leaves its result there for the next     *)
(* one.  last.val is the left operand of the last application.             *)
(***************************************************************************)
Operands ==
    {None, Bool(TRUE), Bool(FALSE), Number(Zero(1)), Number(One), Number(Two),
     String("a"), String("b"), Ref(0, CellIdx(0, 1)), L2}

InitValue ==
    /\ sheets = EmptyMap
    /\ cache = EmptyMap
    /\ dependencies = EmptyMap
    /\ COUNTER = 0
    /\ nops = 0
    /\ last = Call("new", 0, NoCell, 0, None, Ok(None))
    /\ failed = FALSE
    /\ native = EmptyMap
    /\ peer = EmptyMap
    /\ input \in Operands \X Operands

Apply(op, res) ==
    /\ nops < MaxSteps
    /\ last' = Call(op, 0, NoCell, 0, input[1], res)
    /\ input' = IF res.ok THEN <<res.v, input[2]>> ELSE input
    /\ nops' = nops + 1
    /\ UNCHANGED <<sheets, cache, dependencies, COUNTER, failed, native, peer>>

Neg == Apply("neg", value_neg(input[1]))
Add == Apply("add", value_add(input[1], input[2]))
Sub == Apply("sub", value_sub(input[1], input[2]))
Mul == Apply("mul", value_mul(input[1], input[2]))
Div == Apply("div", value_div(input[1], input[2]))

NextValue == Neg \/ Add \/ Sub \/ Mul \/ Div

SpecValue == InitValue /\ [][NextValue]_vars

BinaryOps == {"add", "sub", "mul", "div"}

(***************************************************************************)
(* C12  Empty identity (P7): for each of +, -, *, / and every Value v of   *)
(* every variant, Empty op v and v op Empty succeed and return v           *)
(* unchanged.                                                              *)
(***************************************************************************)
C12_EmptyIdentity ==
    last.op \in BinaryOps =>
        /\ last.val = None => last.res = Ok(input[2])
        /\ input[2] = None => last.res = Ok(last.val)

\* Empty - v has returned v for a Number, and for a Formula
C12_Witness ==
    /\ last.op = "sub"
    /\ last.val = None
    /\ input[2].t \in {"Number", "Formula"}
    /\ last.res = Ok(input[2])

(***************************************************************************)
(* C13  Binary operator matrix: when neither operand is Empty, Number op   *)
(* Number succeeds for the four operators, Text + Text succeeds with the   *)
(* concatenation, left operand first, and every other pair of variants     *)
(* fails with OperationUnavailable.                                        *)
(***************************************************************************)
C13_OperatorMatrix ==
    (last.op \in BinaryOps /\ last.val # None /\ input[2] # None) =>
        LET lhs == last.val
            rhs == input[2]
        IN IF lhs.t = "Number" /\ rhs.t = "Number"
           THEN last.res.ok /\ last.res.v.t = "Number"
           ELSE IF last.op = "add" /\ lhs.t = "String" /\ rhs.t = "String"
           THEN last.res = Ok(String(lhs.s \o rhs.s))
           ELSE last.res = Err("OperationUnavailable")

\* Text + Text has returned the concatenation of two different texts
C13_Witness ==
    /\ last.op = "add"
    /\ last.val = String("a")
    /\ input[2] = String("b")
    /\ last.res = Ok(String("ab"))

(***************************************************************************)
(* C14  Unary minus: on Empty it returns Empty, on Number(a) Number(-a),   *)
(* on Bool(b) Bool(not b), and on Text, Ref or Formula it fails with       *)
(* OperationUnavailable; applied to its own result on an Empty, Number or  *)
(* Bool value it returns the original value.                               *)
(***************************************************************************)
C14_UnaryMinus ==
    last.op = "neg" =>
        LET v == last.val
        IN /\ CASE v.t = "None" -> last.res = Ok(None)
                [] v.t = "Number" ->
                      last.res = Ok(Number(IF v.f.n = 0 THEN F64(0, -v.f.d)
                                           ELSE F64(-v.f.n, v.f.d)))
                [] v.t = "Bool" -> last.res = Ok(Bool(~v.b))
                [] OTHER -> last.res = Err("OperationUnavailable")
           /\ last.res.ok => value_neg(last.res.v) = Ok(v)

\* the minus of a Bool has been taken
C14_Witness ==
    /\ last.op = "neg"
    /\ last.val = Bool(TRUE)
    /\ last.res = Ok(Bool(FALSE))

(***************************************************************************)
(* A client that inserts one string and reads it back.  input is the       *)
(* string, a sequence of characters; the inserts are those with T = &str.  *)
(* A call that panics ends the client.                                     *)
(***************************************************************************)
\* =1+2*3
SrcPrecedence == <<"=", "1", "+", "2", "*", "3">>
\* =(1+2)*3
SrcParen == <<"=", "(", "1", "+", "2", ")", "*", "3">>
\* = 3 - 2 - 1 
SrcSpaced == <<"=", " ", "3", " ", "-", " ", "2", " ", "-", " ", "1", " ">>
\* =power(2,3)
SrcPower == <<"=", "p", "o", "w", "e", "r", "(", "2", ",", "3", ")">>
\* =is_blank([0,0])
SrcIsBlank == <<"=", "i", "s", "_", "b", "l", "a", "n", "k", "(", "[", "0", ",", "0", "]", ")">>
\* =is_formula(&[0,0])
SrcIsFormula == <<"=", "i", "s", "_", "f", "o", "r", "m", "u", "l", "a", "(", "&", "[", "0", ",", "0", "]", ")">>
\* =abs(1)
SrcAbs == <<"=", "a", "b", "s", "(", "1", ")">>
\* =true()
SrcTrue == <<"=", "t", "r", "u", "e", "(", ")">>
\* =false()
SrcFalse == <<"=", "f", "a", "l", "s", "e", "(", ")">>
\* =average(1,3)
SrcAverage == <<"=", "a", "v", "e", "r", "a", "g", "e", "(", "1", ",", "3", ")">>
\* =nosuch(1)
SrcUnknown == <<"=", "n", "o", "s", "u", "c", "h", "(", "1", ")">>
\* =1+
SrcDangling == <<"=", "1", "+">>
\* =
SrcBare == <<"=">>
\* =sum(1
SrcUnclosed == <<"=", "s", "u", "m", "(", "1">>
\* hello
SrcText == <<"h", "e", "l", "l", "o">>
\* the empty string
SrcEmpty == <<>>

\* the arguments of the explored calls of sum: numbers, a text and the
\* dereference of a cell
SumArgs == {<<"1">>, <<"2">>, <<"'", "a", "'">>, <<"[", "0", ",", "0", "]">>}

RECURSIVE Joined(_)
Joined(list) ==
    IF list = <<>> THEN <<>>
    ELSE IF Len(list) = 1 THEN list[1]
    ELSE list[1] \o <<",">> \o Joined(Tail(list))

\* =sum(a, ..) for up to three arguments
SumSources ==
    {<<"=", "s", "u", "m", "(">> \o Joined(list) \o <<")">> :
        list \in UNION {[1..n -> SumArgs] : n \in 0..3}}

AverageArgs == {<<"1">>, <<"3">>, <<"[", "0", ",", "0", "]">>}

\* =average(a, ..) for up to two arguments
AverageSources ==
    {<<"=", "a", "v", "e", "r", "a", "g", "e", "(">> \o Joined(list) \o <<")">> :
        list \in UNION {[1..n -> AverageArgs] : n \in 0..2}}

Sources ==
    {SrcPrecedence, SrcParen, SrcSpaced, SrcPower, SrcIsBlank, SrcIsFormula, SrcAbs,
     SrcTrue, SrcFalse, SrcAverage, SrcUnknown, SrcDangling, SrcBare, SrcUnclosed,
     SrcText, SrcEmpty} \cup SumSources \cup AverageSources

\* the cell the client writes; row 0 and column 1 take its defaults
ScriptCell == CellIdx(1, 0)
ScriptReads == {ScriptCell, CellIdx(0, 0), CellIdx(1, 1)}

InitScript ==
    /\ sheets = EmptyMap
    /\ cache = EmptyMap
    /\ dependencies = EmptyMap
    /\ COUNTER = 0
    /\ nops = 0
    /\ last = Call("new", 0, NoCell, 0, None, Ok(None))
    /\ failed = FALSE
    /\ native = EmptyMap
    /\ peer = EmptyMap
    /\ input \in Sources

Running == nops < MaxCalls /\ last.res # Panicked

\* the Value an insert of src stores, Value::None if the conversion fails
Converted(src) == With(try_from_str(src), LAMBDA val : IF val.ok THEN val.v ELSE None)

InsertStr(sref, cref, src) ==
    /\ Running
    /\ \E r \in {Spanleaf_insert_str(Self, sref, cref, src)}, val \in {try_from_str(src)} :
          /\ Returned(r.sl)
          /\ last' = Call("insert", sref, cref, 0, IF val.ok THEN val.v ELSE None, r.res)
          /\ native' = IF HasKey(sheets, sref) /\ val.ok
                       THEN MapInsert(native, Key(sref, cref), val.v)
                       ELSE native
    /\ nops' = nops + 1
    /\ UNCHANGED <<COUNTER, failed, peer, input>>

InsertRowDefaultStr(sref, row, src) ==
    /\ Running
    /\ \E r \in {Spanleaf_insert_row_default_str(Self, sref, row, src)} :
          /\ Returned(r.sl)
          /\ last' = Call("insert_row_default", sref, NoCell, row, Converted(src), r.res)
    /\ nops' = nops + 1
    /\ UNCHANGED <<COUNTER, failed, native, peer, input>>

InsertColDefaultStr(sref, col, src) ==
    /\ Running
    /\ \E r \in {Spanleaf_insert_col_default_str(Self, sref, col, src)} :
          /\ Returned(r.sl)
          /\ last' = Call("insert_col_default", sref, NoCell, col, Converted(src), r.res)
    /\ nops' = nops + 1
    /\ UNCHANGED <<COUNTER, failed, native, peer, input>>

NextScript ==
    \/ Running /\ InsertSheet("A")
    \/ \E sref \in DOMAIN sheets : InsertStr(sref, ScriptCell, input)
    \/ \E sref \in DOMAIN sheets : InsertRowDefaultStr(sref, 0, input)
    \/ \E sref \in DOMAIN sheets : InsertColDefaultStr(sref, 1, input)
    \/ \E sref \in DOMAIN sheets, cref \in ScriptReads : Running /\ Get(sref, cref)

SpecScript == InitScript /\ [][NextScript]_vars

\* a string that starts with '=' and whose remainder is no formula
InvalidSource(src) == At(src, 1) = "=" /\ ~parser(Tail(src)).ok

(***************************************************************************)
(* C15  An invalid formula is an error value: insert, insert_row_default   *)
(* or insert_col_default of a string whose first character is '=' and      *)
(* whose remainder is not a valid formula returns the error InvalidFormula *)
(* and does not abort, and the cells and defaults of the sheets are the    *)
(* same after the call as before it.                                       *)
(***************************************************************************)
C15_InvalidFormulaError ==
    [][(/\ last'.op \in {"insert", "insert_row_default", "insert_col_default"}
        /\ nops' = nops + 1
        /\ InvalidSource(input))
       => /\ last'.res = Err("InvalidFormula")
          /\ sheets' = sheets]_vars

(***************************************************************************)
(* A client that inserts an arithmetic formula and reads it back: up to    *)
(* three operands 1, 2, 3, each with or without a minus sign, joined by    *)
(* +, -, *, /.                                                             *)
(***************************************************************************)
ArithOps == {"+", "-", "*", "/"}
Terms == {sign \o <<digit>> : sign \in {<<>>, <<"-">>}, digit \in {"1", "2", "3"}}

ArithScripts ==
    Terms
    \cup {a \o <<o>> \o b : a \in Terms, o \in ArithOps, b \in Terms}
    \cup {a \o <<o1>> \o b \o <<o2>> \o c :
             a \in Terms, o1 \in ArithOps, b \in Terms, o2 \in ArithOps, c \in Terms}

InitArith ==
    /\ sheets = EmptyMap
    /\ cache = EmptyMap
    /\ dependencies = EmptyMap
    /\ COUNTER = 0
    /\ nops = 0
    /\ last = Call("new", 0, NoCell, 0, None, Ok(None))
    /\ failed = FALSE
    /\ native = EmptyMap
    /\ peer = EmptyMap
    /\ input \in {<<"=">> \o script : script \in ArithScripts}

NextArith ==
    \/ Running /\ InsertSheet("A")
    \/ \E sref \in DOMAIN sheets : InsertStr(sref, ScriptCell, input)
    \/ \E sref \in DOMAIN sheets : Running /\ Get(sref, ScriptCell)

SpecArith == InitArith /\ [][NextArith]_vars

\* The number an arithmetic script denotes under the grammar of the spec.
\* An operator sign is binary if it follows a digit.  The script splits at
\* its last binary + or -, else at its last binary * or /; what has no
\* binary operator is a minus sign before a term, or a literal.
RECURSIVE Denotes(_)
Denotes(script) ==
    LET Binary(signs) == {i \in 2..Len(script) :
                             script[i] \in signs /\ script[i - 1] \in Digits}
        Last(S) == CHOOSE i \in S : \A j \in S : j <= i
        additive == Binary({"+", "-"})
        multiplicative == Binary({"*", "/"})
        at == IF additive # {} THEN Last(additive) ELSE Last(multiplicative)
        lhs == Denotes(SubSeq(script, 1, at - 1))
        rhs == Denotes(SubSeq(script, at + 1, Len(script)))
    IN IF additive # {} \/ multiplicative # {}
       THEN CASE script[at] = "+" -> f64_add(lhs, rhs)
              [] script[at] = "-" -> f64_sub(lhs, rhs)
              [] script[at] = "*" -> f64_mul(lhs, rhs)
              [] script[at] = "/" -> f64_div(lhs, rhs)
       ELSE IF script[1] = "-" THEN f64_neg(Denotes(Tail(script)))
       ELSE F64(DecimalValue(script, 0), 1)

(***************************************************************************)
(* C16  Operator precedence: a formula is evaluated with * and / binding   *)
(* tighter than + and -, binary operators of equal precedence grouping     *)
(* left to right, and unary - binding tighter than any binary operator:    *)
(* =1+2*3 evaluates to Number(7), a-b-c to (a-b)-c.                        *)
(***************************************************************************)
C16_Precedence ==
    (last.op = "get" /\ HasKey(native, LastKey)) =>
        last.res = Ok(ValueResult(Number(Denotes(Tail(input))), "Native"))

\* the get of =1+2*3 has returned Number(7)
C16_Witness ==
    /\ last.op = "get"
    /\ input = SrcPrecedence
    /\ last.res = Ok(ValueResult(Number(F64(7, 1)), "Native"))

(***************************************************************************)
(* C17  Sheet resolution of a reference: a reference without a sheet       *)
(* identifier targets the sheet of the formula being evaluated; one with   *)
(* the identifier n targets the sheet named n with the smallest SheetIdx;  *)
(* if no sheet is named n, the evaluation fails with SheetNotFound.        *)
(***************************************************************************)
\* the sheets a reference of a formula of sheet curr may target
Resolved(sh, curr, sheet_ref) ==
    IF sheet_ref = <<>> THEN {curr}
    ELSE LET named == {k \in DOMAIN sh : sh[k].name = sheet_ref[1].name}
         IN {k \in named : \A j \in named : k <= j}

C17_SheetResolution ==
    /\ \A curr \in DOMAIN sheets, sheet_ref \in {<<>>, <<ESheet("A")>>, <<ESheet("B")>>} :
          LET r == eval(ECellRef(sheet_ref, Lit(0), Lit(1)), EvalCtx(Self, curr, <<>>)).res
              to == Resolved(sheets, curr, sheet_ref)
          IN IF to = {} THEN r = Err("SheetNotFound")
             ELSE \E k \in to : r = Ok(Ref(k, CellIdx(0, 1)))
    /\ (last.op = "get" /\ IsFormulaCell(sheets, LastKey) /\ LastKey \notin DOMAIN last.before)
       => LET ref == get_raw_value(sheets, last.sref, last.cref).value.expr.e
              to == Resolved(sheets, last.sref, ref.sheet_ref)
              cell == CellIdx(as_u64(ref.row.f), as_u64(ref.col.f))
          IN IF to = {} THEN last.res = Err("SheetNotFound")
             ELSE last.res.ok =>
                    \E k \in to :
                       /\ HasKey(dependencies, Key(k, cell))
                       /\ LastKey \in dependencies[Key(k, cell)]
                       /\ last.res.v.value = NextGet(Key(k, cell)).v.value

\* with two sheets named A, a formula =A[0,0] of the second one has been
\* evaluated and has read the first one
C17_Witness ==
    /\ last.op = "get"
    /\ last.sref = 1
    /\ \A k \in {0, 1} : HasKey(sheets, k) /\ sheets[k].name = "A"
    /\ get_raw_value(sheets, 1, last.cref).value = FA00
    /\ LastKey \notin DOMAIN last.before
    /\ get_raw_value(sheets, 0, CellIdx(0, 0)).value = Number(One)
    /\ last.res = Ok(ValueResult(Number(One), "Native"))

(***************************************************************************)
(* C18  sum folds + from Empty over its arguments in order: sum() is       *)
(* Empty, Empty arguments, dereferenced empty cells included, do not       *)
(* change the result, the sum of Numbers is their arithmetic sum, and the  *)
(* first pair of arguments for which + is undefined makes the call fail    *)
(* with OperationUnavailable.                                              *)
(***************************************************************************)
\* =sum([0,0],1,2)
SrcSum == <<"=", "s", "u", "m", "(", "[", "0", ",", "0", "]", ",", "1", ",", "2", ")">>

\* the value of an argument of the explored calls when the cell it
\* dereferences is empty
ArgValue(arg) ==
    CASE arg.t = "Number" -> Number(arg.f)
      [] arg.t = "String" -> String(arg.s)
      [] arg.t = "CellDeref" -> None

\* the values other than Empty, in order
RECURSIVE Present(_)
Present(vals) ==
    IF vals = <<>> THEN <<>>
    ELSE (IF Head(vals) = None THEN <<>> ELSE <<Head(vals)>>) \o Present(Tail(vals))

RECURSIVE Total(_)
Total(numbers) == IF numbers = <<>> THEN 0 ELSE Head(numbers).f.n + Total(Tail(numbers))

RECURSIVE Texts(_)
Texts(strings) == IF strings = <<>> THEN "" ELSE Head(strings).s \o Texts(Tail(strings))

SumValue(args) ==
    LET vals == Present([i \in DOMAIN args |-> ArgValue(args[i])])
    IN IF vals = <<>> THEN Ok(None)
       ELSE IF \A i \in DOMAIN vals : vals[i].t = "Number"
       THEN Ok(Number(F64(Total(vals), 1)))
       ELSE IF \A i \in DOMAIN vals : vals[i].t = "String"
       THEN Ok(String(Texts(vals)))
       ELSE Err("OperationUnavailable")

C18_SumFolds ==
    (/\ last.op = "get"
     /\ input \in SumSources
     /\ HasKey(native, LastKey)
     /\ LastKey \notin DOMAIN last.before
     /\ get_raw_value(sheets, last.sref, CellIdx(0, 0)).value = None)
    => LET expected == SumValue(native[LastKey].expr.args)
       IN IF expected.ok THEN last.res = Ok(ValueResult(expected.v, "Native"))
          ELSE last.res = expected

\* the get of =sum([0,0],1,2) with an empty cell (0,0) has returned Number(3)
C18_Witness ==
    /\ last.op = "get"
    /\ input = SrcSum
    /\ get_raw_value(sheets, last.sref, CellIdx(0, 0)).value = None
    /\ last.res = Ok(ValueResult(Number(F64(3, 1)), "Native"))

(***************************************************************************)
(* C19  A call to each of the names sum, average, power, abs, true, false, *)
(* is_blank and is_formula is dispatched to its function: power(base, exp) *)
(* of two Numbers returns base^exp and is_blank(x) is true exactly when x  *)
(* is Empty; a call to any other name fails with FunctionNotAvailable.     *)
(***************************************************************************)
C19_FunctionDispatch ==
    (/\ last.op = "get"
     /\ HasKey(native, LastKey)
     /\ LastKey \notin DOMAIN last.before
     /\ get_raw_value(sheets, last.sref, CellIdx(0, 0)).value = None)
    => /\ input = SrcPower => last.res = Ok(ValueResult(Number(F64(8, 1)), "Native"))
       /\ input = SrcIsBlank => last.res = Ok(ValueResult(Bool(TRUE), "Native"))
       /\ input = SrcAverage => last.res = Ok(ValueResult(Number(F64(2, 1)), "Native"))
       /\ input = SrcUnknown => last.res = Err("FunctionNotAvailable")

(***************************************************************************)
(* Two Spanleafs of one process: both take their SheetIdx from the same    *)
(* COUNTER; the first one is also written to and read, with identifiers of *)
(* either Spanleaf.                                                        *)
(***************************************************************************)
NextProcess ==
    \/ \E name \in {"A", "B"} : InsertSheet(name)
    \/ \E name \in {"A", "B"} : PeerInsertSheet(name)
    \/ \E sref \in DOMAIN sheets \cup DOMAIN peer, cref \in InputCells, val \in PlainValues :
          Insert(sref, cref, val)
    \/ \E sref \in DOMAIN sheets, cref \in ReadCells : GetRaw(sref, cref)

SpecProcess == Init /\ [][NextProcess]_vars

(***************************************************************************)
(* C20  Sheet identifiers are unique and monotonic: every insert_sheet, on *)
(* either Spanleaf of the process, returns a SheetIdx strictly greater     *)
(* than every SheetIdx returned earlier, none is returned twice, and a     *)
(* sheet once inserted stays registered under its identifier.              *)
(***************************************************************************)
C20_SheetIdxUnique ==
    [][/\ (last'.op = "insert_sheet" /\ nops' = nops + 1)
          => /\ \A k \in DOMAIN sheets \cup DOMAIN peer : last'.sref > k
             /\ last'.sref \in DOMAIN sheets' \cup DOMAIN peer'
       /\ DOMAIN sheets \cap DOMAIN peer = {}
       /\ \A k \in DOMAIN sheets : HasKey(sheets', k) /\ sheets'[k].name = sheets[k].name
       /\ \A k \in DOMAIN peer : HasKey(peer', k) /\ peer'[k].name = peer[k].name]_vars

\* each Spanleaf holds a sheet, the second one inserted last, and the first
\* one was written to since
C20_Witness ==
    /\ DOMAIN sheets # {}
    /\ DOMAIN peer # {}
    /\ \E k \in DOMAIN peer : \A j \in DOMAIN sheets : k > j
    /\ last.op = "insert"
    /\ last.res.ok

(***************************************************************************)
(* C21  get on a cell that holds no formula is a pure read: if             *)
(* get_raw_value(s,c) is not a Formula, a missing cell and an unknown      *)
(* sheet included, get(s,c) returns exactly get_raw_value(s,c), with the   *)
(* same source, and leaves cache, dependencies and the sheets unchanged.   *)
(***************************************************************************)
C21_PureRead ==
    /\ \A sref \in 0..MaxSheets, cref \in ReadCells :
          LET raw == get_raw_value(sheets, sref, cref)
              g == Spanleaf_get(Self, sref, cref)
          IN raw.value.t # "Formula"
             => /\ g.res = Ok(raw)
                /\ g.sl.sheets = sheets
                /\ g.sl.cache = cache
                /\ g.sl.dependencies = dependencies
    /\ (last.op = "get" /\ ~IsFormulaCell(sheets, LastKey))
       => /\ last.res = Ok(get_raw_value(sheets, last.sref, last.cref))
          /\ cache = last.before

\* a get has returned the number a row default supplies, with its source,
\* while the cache holds a result
C21_Witness ==
    /\ last.op = "get"
    /\ last.res = Ok(ValueResult(Number(One), "RowDefault"))
    /\ \E k \in DOMAIN cache : cache[k].t = "Calculated"

(***************************************************************************)
(* C22  Provenance through evaluation: when get(s,c) resolves a formula,   *)
(* on a cache miss and on a cache hit alike, the ValueResult it returns    *)
(* carries the computed value together with the source (Native,            *)
(* RowDefault or ColDefault) that get_raw_value(s,c) reports for the       *)
(* formula.                                                                *)
(***************************************************************************)
C22_Provenance ==
    /\ \A sref \in DOMAIN sheets, cref \in ReadCells :
          LET raw == get_raw_value(sheets, sref, cref)
              g == Spanleaf_get(Self, sref, cref)
          IN (raw.value.t = "Formula" /\ g.res.ok)
             => /\ g.res.v.source = raw.source
                /\ g.sl.cache[Key(sref, cref)] = Calculated(g.res.v.value)
    /\ (last.op = "get" /\ IsFormulaCell(sheets, LastKey) /\ last.res.ok)
       => /\ last.res.v.source = get_raw_value(sheets, last.sref, last.cref).source
          /\ cache[LastKey] = Calculated(last.res.v.value)
          /\ LastKey \in DOMAIN last.before => last.before[LastKey] = cache[LastKey]

\* a get has returned the cached result of a formula that a column default
\* supplies, with the source ColDefault
C22_Witness ==
    /\ last.op = "get"
    /\ LastKey \in DOMAIN last.before
    /\ IsFormulaCell(sheets, LastKey)
    /\ last.res = Ok(ValueResult(Number(One), "ColDefault"))

\* the cells reachable from the cells of S through the dependants de records
RECURSIVE Dependants(_, _)
Dependants(de, S) ==
    LET N == S \cup UNION {de[k] : k \in S \cap DOMAIN de}
    IN IF N = S THEN S ELSE Dependants(de, N)

C25_NoInconsistentCaching ==
    /\ last.res # Err("InconsistentCaching")
    /\ \A sref \in DOMAIN sheets, cref \in ReadCells :
          NextGet(Key(sref, cref)) # Err("InconsistentCaching")

\* a get has missed the cache, evaluated its formula through a nested get of
\* another formula, and replaced both sentinels by results
C25_Witness ==
    /\ last.op = "get"
    /\ last.res.ok
    /\ IsFormulaCell(sheets, LastKey)
    /\ LastKey \notin DOMAIN last.before
    /\ \E k \in DOMAIN cache \ DOMAIN last.before :
          k # LastKey /\ cache[k].t = "Calculated" /\ cache[LastKey].t = "Calculated"

(***************************************************************************)
(* C26  Invalidation terminates: whatever dependencies holds, cycles and   *)
(* cells that are reached more than once included, a call of               *)
(* clear_from_cache(s,c) returns, and when it has returned neither cache   *)
(* nor dependencies has an entry for (s,c) or for a cell reachable from    *)
(* (s,c) through the dependencies of before the call.                      *)
(***************************************************************************)
Cleared == Dependants(input.dependencies, {input.k})

JustCleared == Idle /\ last.op = "clear_from_cache"

C26_InvalidationTerminates ==
    /\ (~Idle) ~> Idle
    /\ [](JustCleared
           => /\ \A x \in Cleared : x \notin DOMAIN cache /\ x \notin DOMAIN dependencies
              /\ LET sl == clear_from_cache(Engine(sheets, input.cache, input.dependencies),
                                            input.k)
                 IN cache = sl.cache /\ dependencies = sl.dependencies)

\* a call has returned that began on a cell which was its own dependent and
\* had a second one; it was made for more cells than it has cleared
C26_Witness ==
    /\ JustCleared
    /\ HasKey(input.dependencies, input.k)
    /\ input.k \in input.dependencies[input.k]
    /\ Cardinality(input.dependencies[input.k]) > 1
    /\ input.calls > Cardinality(Cleared)

(***************************************************************************)
(* C27  get terminates: no chain of re-entrant calls of get visits the     *)
(* same formula cell twice without returning CyclicDependencyDetected;     *)
(* the second visit finds the Calculating sentinel of the first, and       *)
(* every call of the chain has returned when get returns.                  *)
(***************************************************************************)
C27_GetTerminates ==
    /\ last.res # Revisited
    /\ \A sref \in DOMAIN sheets, cref \in ReadCells :
          LET g == Spanleaf_get(Self, sref, cref)
          IN g.res # Revisited /\ g.sl.chain = <<>>

\* a get has missed the cache, its evaluation has reached a second formula
\* and come back to the first: both sentinels were set and the get returned
\* CyclicDependencyDetected
C27_Witness ==
    /\ last.op = "get"
    /\ IsCyclicError(last.res)
    /\ LastKey \notin DOMAIN last.before
    /\ \E k \in DOMAIN cache \ DOMAIN last.before :
          k # LastKey /\ cache[k].t = "Calculating" /\ LastKey \in CellRefs(sheets, k, TRUE)

AverageValue(args) ==
    LET numbers == Present([i \in DOMAIN args |-> ArgValue(args[i])])
    IN IF args = <<>> THEN Number(F64(0, 1))
       ELSE Number(f64_div(F64(Total(numbers), 1), F64(Len(args), 1)))

IsCalculated(ca, x) == HasKey(ca, x) /\ ca[x].t = "Calculated"

C30_ReverseDependencies ==
    [][/\ (last'.op = "get" /\ nops' = nops + 1)
          => \A x \in DOMAIN cache' :
                (IsCalculated(cache', x) /\ ~HasKey(cache, x))
                => \A d \in CellRefs(sheets, x, FALSE) :
                      HasKey(dependencies', d) /\ x \in dependencies'[d]
       /\ \A d \in DOMAIN dependencies : \A x \in dependencies[d] :
             (IsCalculated(cache, x) /\ IsCalculated(cache', x))
             => HasKey(dependencies', d) /\ x \in dependencies'[d]]_vars

\* the get of "=[[0,0],1]" has computed a result: the cell is recorded under
\* (0,0), which its index reads, and under (1,1), which it dereferences
C30_Witness ==
    /\ last.op = "get"
    /\ last.res.ok
    /\ get_raw_value(sheets, last.sref, last.cref).value = FX
    /\ IsCalculated(cache, LastKey)
    /\ CellRefs(sheets, LastKey, FALSE)
          = {Key(last.sref, CellIdx(0, 0)), Key(last.sref, CellIdx(1, 1))}
    /\ \A d \in CellRefs(sheets, LastKey, FALSE) :
          HasKey(dependencies, d) /\ LastKey \in dependencies[d]

(***************************************************************************)
(* C31  get is repeatable: a second get(s,c), made right after a get(s,c)  *)
(* with no write between them, returns the same outcome: the same value    *)
(* and source on success, the same error on failure; and it leaves cache   *)
(* and dependencies as the first call left them.                           *)
(***************************************************************************)
C31_GetRepeatable ==
    last.op = "get"
    => LET again == Spanleaf_get(Self, last.sref, last.cref)
       IN /\ again.res = last.res
          /\ again.sl.cache = cache
          /\ again.sl.dependencies = dependencies

(***************************************************************************)
(* C32  Cache keys are formula cells: in every reachable state every key   *)
(* (s,c) of the cache is a cell for which get_raw_value(s,c) is a Formula; *)
(* no write, native or of a row or column default, leaves a cache entry    *)
(* behind for a cell whose raw value is no longer a formula.               *)
(***************************************************************************)
C32_CacheKeysAreFormulas ==
    \A k \in DOMAIN cache : IsFormulaCell(sheets, k)

(***************************************************************************)
(* C33  Shell offset stays in range: for every CellIdx whose row and col   *)
(* fit the machine word, no step of (max * max) + max + row - col leaves   *)
(* the word, neither below zero nor beyond its largest value, so the       *)
(* offset is the one computed on the naturals and distinct cells of the    *)
(* word have distinct offsets.                                             *)
(***************************************************************************)
\* the values the expression takes step by step, on the naturals
ShellOffSteps(cref) ==
    LET max == IF cref.row >= cref.col THEN cref.row ELSE cref.col
    IN <<max * max, (max * max) + max, (max * max) + max + cref.row,
         (max * max) + max + cref.row - cref.col>>

C33_OffsetInRange ==
    (last.op \in {"insert", "get_raw_value"} /\ HasKey(sheets, last.sref))
    => /\ \A i \in 1..4 : ShellOffSteps(last.cref)[i] \in 0..WordMax
       /\ cell_ref_to_shell_off(last.cref) = ShellOffSteps(last.cref)[4]
       /\ \A b \in FarCells \ {last.cref} :
             cell_ref_to_shell_off(b) # cell_ref_to_shell_off(last.cref)

====
